---- MODULE Spec2Model ----
(***************************************************************************)
(* Model of the payroll data check of detakyuyo:                           *)
(*   POST /api/data-check/analyze  (src/src/app/api/data-check/analyze/    *)
(*   route.ts), the reconciliation of an uploaded spreadsheet against the  *)
(*   monthlyPayroll ledger.                                                *)
(*                                                                         *)
(* Representation.                                                         *)
(*  - A JavaScript string is a sequence of characters.  A character is a   *)
(*    one-character TLA+ string; a character outside ASCII is written as   *)
(*    its code point, "U6C0F" for U+6C0F.  The literal chunks of a message *)
(*    template are single tokens as well.                                  *)
(*  - A JavaScript number is a fixed-point integer counting hundredths:    *)
(*    the integer n stands for n / Scale.  Column indices, row counts,     *)
(*    years and months are plain integers.                                 *)
(*  - A value that may be a number, a string or null/undefined is tagged:  *)
(*    Num(n), Str(s), Null.  Fields that the code only tests for           *)
(*    truthiness and equality (names, ids, status) are bare strings, with  *)
(*    the empty string standing for undefined as well.                     *)
(*  - Arrays are sequences; the column indices kept in `mapping` are the   *)
(*    code's 0-based indices.                                              *)
(***************************************************************************)
EXTENDS Integers, Sequences, FiniteSets, TLC

VARIABLES
  store,     \* the document store: monthlyPayroll, companySettings, appSettings
  req,       \* the form data of the request being served
  pc,        \* the handler's position
  loc,       \* the handler's local variables
  reads,     \* the store reads the handler has issued, in order
  response   \* the response returned, NoResponse until then

vars == << store, req, pc, loc, reads, response >>

(***************************************************************************)
(* Values                                                                  *)
(***************************************************************************)
Scale == 100

Null == [t |-> "null"]
Num(n) == [t |-> "num", v |-> n]
Str(s) == [t |-> "str", v |-> s]
IsNull(x) == x.t = "null"
IsNum(x) == x.t = "num"
IsStr(x) == x.t = "str"

\* JavaScript's NaN, the result of parseFloat / parseInt on a non-number.
NaN == [t |-> "nan"]

(***************************************************************************)
(* Characters and strings                                                  *)
(***************************************************************************)
\* The characters matched by \s (and removed by trim) among those the model
\* uses: space, tab, line feed, no-break space, ideographic space U+3000.
WhiteSpace == { " ", "\t", "\n", "U00A0", "U3000" }

Digits == << "0", "1", "2", "3", "4", "5", "6", "7", "8", "9" >>
IsDigit(c) == \E d \in 1..10 : Digits[d] = c
DigitVal(c) == (CHOOSE d \in 1..10 : Digits[d] = c) - 1

RECURSIVE TrimStart(_)
TrimStart(s) ==
  IF s # << >> /\ Head(s) \in WhiteSpace THEN TrimStart(Tail(s)) ELSE s

RECURSIVE TrimEnd(_)
TrimEnd(s) ==
  IF s # << >> /\ s[Len(s)] \in WhiteSpace
    THEN TrimEnd(SubSeq(s, 1, Len(s) - 1)) ELSE s

\* String.prototype.trim
Trim(s) == TrimEnd(TrimStart(s))

\* String.prototype.startsWith
StartsWith(s, p) == Len(p) <= Len(s) /\ SubSeq(s, 1, Len(p)) = p

\* String.prototype.includes
Includes(s, p) ==
  \E i \in 1..(Len(s) - Len(p) + 1) : SubSeq(s, i, i + Len(p) - 1) = p

\* String.prototype.split(sep) for a one-character separator
RECURSIVE Split(_, _)
Split(s, sep) ==
  IF \E i \in 1..Len(s) : s[i] = sep
    THEN LET i == CHOOSE k \in 1..Len(s) :
                    s[k] = sep /\ \A j \in 1..(k - 1) : s[j] # sep
         IN  << SubSeq(s, 1, i - 1) >> \o Split(SubSeq(s, i + 1, Len(s)), sep)
    ELSE << s >>

\* The decimal digits of a non-negative integer.
RECURSIVE NatToStr(_)
NatToStr(n) ==
  IF n < 10 THEN << Digits[n + 1] >>
  ELSE NatToStr(n \div 10) \o << Digits[(n % 10) + 1] >>

IntToStr(n) == IF n < 0 THEN << "-" >> \o NatToStr(-n) ELSE NatToStr(n)

\* The fraction digits of h hundredths (0 <= h < Scale), trailing zeros dropped.
FracDigits(h) ==
  IF h = 0 THEN << >>
  ELSE IF h % 10 = 0 THEN << ".", Digits[(h \div 10) + 1] >>
  ELSE << ".", Digits[(h \div 10) + 1], Digits[(h % 10) + 1] >>

Abs(n) == IF n < 0 THEN -n ELSE n

\* String(n) for a number n (hundredths)
NumToStr(n) ==
  (IF n < 0 THEN << "-" >> ELSE << >>)
    \o NatToStr(Abs(n) \div Scale) \o FracDigits(Abs(n) % Scale)

\* String(v) for a cell or field value (String(null) is not used by the code:
\* every call is guarded by a null test)
JsString(v) == IF IsNum(v) THEN NumToStr(v.v) ELSE v.v

\* String.prototype.padStart(2, "0")
PadStart2(s) == IF Len(s) < 2 THEN << "0" >> \o s ELSE s

\* The value of a run of digits.
RECURSIVE DigitsVal(_)
DigitsVal(s) ==
  IF s = << >> THEN 0
  ELSE DigitsVal(SubSeq(s, 1, Len(s) - 1)) * 10 + DigitVal(s[Len(s)])

\* The longest prefix of s made of digits.
RECURSIVE DigitPrefix(_)
DigitPrefix(s) ==
  IF s # << >> /\ IsDigit(Head(s))
    THEN << Head(s) >> \o DigitPrefix(Tail(s)) ELSE << >>

\* parseInt(s): an integer, or NaN.  Leading white space and a sign are
\* accepted, the digits that follow are read and the rest is ignored.
ParseInt(s) ==
  LET t == TrimStart(s)
      neg == t # << >> /\ Head(t) = "-"
      u == IF t # << >> /\ Head(t) \in { "-", "+" } THEN Tail(t) ELSE t
      d == DigitPrefix(u)
  IN  IF d = << >> THEN NaN
      ELSE Num(IF neg THEN -DigitsVal(d) ELSE DigitsVal(d))

\* parseFloat(s): a number in hundredths, or NaN.  Leading white space, a
\* sign, integer digits and a fraction are read; fraction digits beyond the
\* second are dropped (the model's cells carry at most two).
ParseFloat(s) ==
  LET t == TrimStart(s)
      neg == t # << >> /\ Head(t) = "-"
      u == IF t # << >> /\ Head(t) \in { "-", "+" } THEN Tail(t) ELSE t
      d == DigitPrefix(u)
      r == SubSeq(u, Len(d) + 1, Len(u))
      f == IF r # << >> /\ Head(r) = "." THEN DigitPrefix(Tail(r)) ELSE << >>
      f2 == SubSeq(f \o << "0", "0" >>, 1, 2)
      mag == DigitsVal(d) * Scale + DigitsVal(f2)
  IN  IF d = << >> /\ f = << >> THEN NaN
      ELSE Num(IF neg THEN -mag ELSE mag)

\* `typeof v === "number" ? v : parseFloat(String(v)) || 0` (lines 329, 422,
\* 423, 428): the number behind a non-null value, NaN and 0 both giving 0.
ToNumber(v) ==
  IF IsNum(v) THEN v.v
  ELSE LET p == ParseFloat(JsString(v)) IN IF IsNum(p) THEN p.v ELSE 0

\* Digit grouping by thousands of a non-negative integer.
RECURSIVE Grouped(_)
Grouped(n) ==
  IF n < 1000 THEN NatToStr(n)
  ELSE Grouped(n \div 1000)
         \o << ",", Digits[((n % 1000) \div 100) + 1],
               Digits[((n % 100) \div 10) + 1], Digits[(n % 10) + 1] >>

\* fmtNum (lines 43-46): Number.prototype.toLocaleString("ja-JP").
fmtNum(n) ==
  (IF n < 0 THEN << "-" >> ELSE << >>)
    \o Grouped(Abs(n) \div Scale) \o FracDigits(Abs(n) % Scale)

(***************************************************************************)
(* Literals of the source                                                  *)
(***************************************************************************)
TAISHA == << "U9000", "U793E" >>                                  \* 退社
L_department == << "U6240", "U5C5E" >>                            \* 所属
L_baseSalary == << "U57FA", "U672C", "U7D66" >>                   \* 基本給
L_commutingAllowance == << "U901A", "U52E4", "U624B", "U5F53" >>  \* 通勤手当
L_commutingUnitPrice == << "U4EA4", "U901A", "U8CBB", "U5358", "U4FA1" >>  \* 交通費単価
L_deemedOvertimePay == << "U307F", "U306A", "U3057", "U6B8B", "U696D", "U624B", "U5F53" >>  \* みなし残業手当
L_residentTax == << "U4F4F", "U6C11", "U7A0E" >>                  \* 住民税
L_unitPrice == << "U5358", "U4FA1" >>                             \* 単価
L_socialInsuranceGrade == << "U793E", "U4FDD", "U7B49", "U7D1A" >>  \* 社保等級
L_bonus == << "U8CDE", "U4E0E" >>                                 \* 賞与
L_employeeNumber == << "U793E", "U54E1", "U756A", "U53F7" >>      \* 社員番号
L_name == << "U6C0F", "U540D" >>                                  \* 氏名
TEATE == << "U624B", "U5F53" >>                                   \* 手当
A_juugyouinmei == << "U5F93", "U696D", "U54E1", "U540D" >>        \* 従業員名
A_shainmei == << "U793E", "U54E1", "U540D" >>                     \* 社員名
A_namae == << "U540D", "U524D" >>                                 \* 名前
A_juugyouinbangou == << "U5F93", "U696D", "U54E1", "U756A", "U53F7" >>  \* 従業員番号
A_shainNo == << "U793E", "U54E1", "N", "o" >>                     \* 社員No
A_NoDot == << "N", "o", "." >>                                    \* No.

\* line 6
STRING_FIELDS == { "socialInsuranceGrade", "department" }

\* lines 9-19
BASE_CHECK_FIELDS ==
  << [key |-> "department", label |-> L_department],
     [key |-> "baseSalary", label |-> L_baseSalary],
     [key |-> "commutingAllowance", label |-> L_commutingAllowance],
     [key |-> "commutingUnitPrice", label |-> L_commutingUnitPrice],
     [key |-> "deemedOvertimePay", label |-> L_deemedOvertimePay],
     [key |-> "residentTax", label |-> L_residentTax],
     [key |-> "unitPrice", label |-> L_unitPrice],
     [key |-> "socialInsuranceGrade", label |-> L_socialInsuranceGrade],
     [key |-> "bonus", label |-> L_bonus] >>

\* `allowance${i}` and `allowance${i}Name`, i in 1..6
AllowanceKey(i) ==
  << "allowance1", "allowance2", "allowance3",
     "allowance4", "allowance5", "allowance6" >>[i]
AllowanceNameKey(i) ==
  << "allowance1Name", "allowance2Name", "allowance3Name",
     "allowance4Name", "allowance5Name", "allowance6Name" >>[i]

\* allFields (lines 185-186): the base keys, then allowance1..6
AllFieldKeys ==
  [i \in 1..Len(BASE_CHECK_FIELDS) |-> BASE_CHECK_FIELDS[i].key]
    \o [i \in 1..6 |-> AllowanceKey(i)]
AllFieldKeySet == { AllFieldKeys[i] : i \in 1..Len(AllFieldKeys) }

\* Every key `mapping` and `savedMapping` may carry.
MappingKeySet == { "employeeNumber", "name" } \cup AllFieldKeySet

(***************************************************************************)
(* The previous period (lines 110-112)                                     *)
(***************************************************************************)
\* new Date(y, m, 1) for a month index m outside 0..11 carries into the year.
DateYear(y, m) == y + ((m - (m % 12)) \div 12)
DateMonth(m) == m % 12

\* PrevMonth, had the year not been carried over January.
PrevMonthSameYear(month) ==
  LET parts == Split(month, "-")
      y == ParseInt(parts[1])
      m == IF Len(parts) >= 2 THEN ParseInt(parts[2]) ELSE NaN
  IN  IF ~IsNum(y) \/ ~IsNum(m)
        THEN << "N", "a", "N", "-", "N", "a", "N" >>
        ELSE IntToStr(y.v) \o << "-" >>
               \o PadStart2(IntToStr(DateMonth(m.v - 2) + 1))

PrevMonth(month) ==
  LET parts == Split(month, "-")
      yearStr == parts[1]
      y == ParseInt(yearStr)
      m == IF Len(parts) >= 2 THEN ParseInt(parts[2]) ELSE NaN
  IN  IF ~IsNum(y) \/ ~IsNum(m)
        THEN << "N", "a", "N", "-", "N", "a", "N" >>
        ELSE IntToStr(DateYear(y.v, m.v - 2)) \o << "-" >>
               \o PadStart2(IntToStr(DateMonth(m.v - 2) + 1))

(***************************************************************************)
(* Ledger Snapshot Builder (lines 114-207)                                 *)
(***************************************************************************)
\* aliasMappings (lines 114-117): the mappings of appSettings/companyAliases,
\* a sequence of << raw name, display name >> pairs; empty when the document
\* does not exist.
AliasMappings(appSettings) ==
  IF appSettings.exists THEN appSettings.mappings ELSE << >>

\* aliasMappings[rawName] || rawName
DisplayName(aliasMappings, rawName) ==
  IF \E i \in 1..Len(aliasMappings) :
       aliasMappings[i][1] = rawName /\ aliasMappings[i][2] # << >>
    THEN aliasMappings[CHOOSE i \in 1..Len(aliasMappings) :
                         aliasMappings[i][1] = rawName][2]
    ELSE rawName

\* matchingNames (lines 118-122)
MatchingNames(aliasMappings, companyName) ==
  { companyName }
    \cup { aliasMappings[i][1] : i \in { j \in 1..Len(aliasMappings) :
                                          aliasMappings[j][2] = companyName } }

\* a || b on strings
Or(a, b) == IF a # << >> THEN a ELSE b

\* One pass of the loop of lines 126-135 over companySettings.
RECURSIVE StandardWorkingHoursFrom(_, _, _, _)
StandardWorkingHoursFrom(docs, names, companyName, hours) ==
  IF docs = << >> THEN hours
  ELSE LET cs == Head(docs)
           sn == cs.shortName
           on == cs.officialName
           hit == sn \in names \/ on \in names
                    \/ StartsWith(sn, companyName) \/ StartsWith(on, companyName)
           swh == cs.standardWorkingHours
           next == IF hit /\ IsNum(swh) /\ swh.v # 0 /\ swh.v # 160 * Scale
                     THEN swh.v ELSE hours
       IN  StandardWorkingHoursFrom(Tail(docs), names, companyName, next)

\* standardWorkingHours (lines 124-135), in hundredths of an hour
StandardWorkingHours(docs, names, companyName) ==
  StandardWorkingHoursFrom(docs, names, companyName, 160 * Scale)

\* Number(v) || 0 (lines 194, 196): Number() of a string accepts only a
\* string that is a number as a whole; undefined gives NaN, hence 0.
NumberOr0(v) ==
  IF IsNum(v) THEN v.v
  ELSE IF IsNull(v) THEN 0
  ELSE LET t == Trim(v.v)
           p == ParseFloat(t)
       IN  IF IsNum(p) /\ NumToStr(p.v) = t THEN p.v ELSE 0

\* Math.round(a / b) for b > 0: halves go up.
RoundDiv(a, b) == (2 * a + b) \div (2 * b)

\* !v : v is undefined, 0 or "".
Falsy(v) == IsNull(v) \/ (IsNum(v) /\ v.v = 0) \/ (IsStr(v) /\ v.v = << >>)

\* LedgerRecord, had the derived unit price been cut to two decimals instead
\* of rounded.
LedgerRecordTruncating(d, standardWorkingHours) ==
  LET rec == [fk \in AllFieldKeySet |->
                IF ~IsNull(d.f[fk]) THEN d.f[fk]
                ELSE IF fk \in STRING_FIELDS THEN Str(<< >>) ELSE Num(0)]
      base == NumberOr0(rec["baseSalary"])
      allowanceSum ==
        NumberOr0(d.f["allowance1"]) + NumberOr0(d.f["allowance2"])
          + NumberOr0(d.f["allowance3"]) + NumberOr0(d.f["allowance4"])
          + NumberOr0(d.f["allowance5"]) + NumberOr0(d.f["allowance6"])
  IN  IF Falsy(rec["unitPrice"]) /\ standardWorkingHours > 0
        THEN [rec EXCEPT !["unitPrice"] =
                Num(((base + allowanceSum) * Scale) \div standardWorkingHours)]
        ELSE rec

\* LedgerRecord, had the fields a record lacks been left undefined.
LedgerRecordWithoutDefaults(d, standardWorkingHours) ==
  LET rec == [fk \in AllFieldKeySet |-> d.f[fk]]
      base == NumberOr0(rec["baseSalary"])
      allowanceSum ==
        NumberOr0(d.f["allowance1"]) + NumberOr0(d.f["allowance2"])
          + NumberOr0(d.f["allowance3"]) + NumberOr0(d.f["allowance4"])
          + NumberOr0(d.f["allowance5"]) + NumberOr0(d.f["allowance6"])
  IN  IF Falsy(rec["unitPrice"]) /\ standardWorkingHours > 0
        THEN [rec EXCEPT !["unitPrice"] =
                Num(RoundDiv((base + allowanceSum) * Scale, standardWorkingHours))]
        ELSE rec

\* record (lines 188-200): every field defaulted, unit price derived
LedgerRecord(d, standardWorkingHours) ==
  LET rec == [fk \in AllFieldKeySet |->
                IF ~IsNull(d.f[fk]) THEN d.f[fk]
                ELSE IF fk \in STRING_FIELDS THEN Str(<< >>) ELSE Num(0)]
      base == NumberOr0(rec["baseSalary"])
      allowanceSum ==
        NumberOr0(d.f["allowance1"]) + NumberOr0(d.f["allowance2"])
          + NumberOr0(d.f["allowance3"]) + NumberOr0(d.f["allowance4"])
          + NumberOr0(d.f["allowance5"]) + NumberOr0(d.f["allowance6"])
  IN  IF Falsy(rec["unitPrice"]) /\ standardWorkingHours > 0
        THEN [rec EXCEPT !["unitPrice"] =
                Num(RoundDiv((base + allowanceSum) * Scale, standardWorkingHours))]
        ELSE rec

\* const key = d.kintoneRecordId || d.employeeNumber || d.name (line 171)
IdentityKey(d) == Or(d.kintoneRecordId, Or(d.employeeNumber, d.name))

\* RecordSelected, had the company name been preferred to the short name.
RecordSelectedByCompanyName(d, aliasMappings, names, companyName, month, prevMonth) ==
  LET rawName == Or(d.companyName, d.companyShortName)
      displayName == DisplayName(aliasMappings, rawName)
  IN  /\ rawName \in names \/ displayName = companyName
      /\ d.name # << >> /\ d.month # << >>
      /\ d.month = month \/ d.month = prevMonth

\* The filters of lines 154-158: the record is of the company and of one of
\* the two periods.
RecordSelected(d, aliasMappings, names, companyName, month, prevMonth) ==
  LET rawName == Or(d.companyShortName, d.companyName)
      displayName == DisplayName(aliasMappings, rawName)
  IN  /\ rawName \in names \/ displayName = companyName
      /\ d.name # << >> /\ d.month # << >>
      /\ d.month = month \/ d.month = prevMonth

NoRecord == Null
Rec(r) == [t |-> "rec", v |-> r]

\* The position of `key` among the entries of the map, 0 when absent.
KeyIndex(entries, key) ==
  IF \E i \in 1..Len(entries) : entries[i].key = key
    THEN CHOOSE i \in 1..Len(entries) : entries[i].key = key
    ELSE 0

\* emp.status after a record of the identity is read (line 183)
StatusAfter(status, d) == IF d.status # << >> THEN d.status ELSE status

\* PutRecord, had a record that lacks a field left the bucket's value of the
\* field as it was.
PutRecordMergingFields(entries, d, month, prevMonth, standardWorkingHours) ==
  LET key == IdentityKey(d)
      k == KeyIndex(entries, key)
      fresh == [key |-> key, name |-> d.name,
                employeeNumber |-> d.employeeNumber,
                status |-> d.status, current |-> NoRecord, prev |-> NoRecord]
      all == IF k = 0 THEN Append(entries, fresh) ELSE entries
      i == IF k = 0 THEN Len(all) ELSE k
      new == LedgerRecord(d, standardWorkingHours)
      Merged(old) ==
        IF old = NoRecord THEN Rec(new)
        ELSE Rec([fk \in AllFieldKeySet |->
                    IF IsNull(d.f[fk]) THEN old.v[fk] ELSE new[fk]])
      emp == [all[i] EXCEPT !.status = StatusAfter(@, d)]
  IN  [all EXCEPT ![i] =
         IF d.month = month THEN [emp EXCEPT !.current = Merged(@)]
         ELSE IF d.month = prevMonth THEN [emp EXCEPT !.prev = Merged(@)]
         ELSE emp]

\* Lines 171-206 for one selected record: the entry is created on the first
\* record of its key, the status overwritten, the period's bucket replaced.
\* The map is kept as the sequence of its entries in insertion order.
PutRecord(entries, d, month, prevMonth, standardWorkingHours) ==
  LET key == IdentityKey(d)
      k == KeyIndex(entries, key)
      fresh == [key |-> key, name |-> d.name,
                employeeNumber |-> d.employeeNumber,
                status |-> d.status, current |-> NoRecord, prev |-> NoRecord]
      all == IF k = 0 THEN Append(entries, fresh) ELSE entries
      i == IF k = 0 THEN Len(all) ELSE k
      record == Rec(LedgerRecord(d, standardWorkingHours))
      emp == [all[i] EXCEPT !.status = StatusAfter(@, d)]
  IN  [all EXCEPT ![i] =
         IF d.month = month THEN [emp EXCEPT !.current = record]
         ELSE IF d.month = prevMonth THEN [emp EXCEPT !.prev = record]
         ELSE emp]

\* appEmployeeMap (lines 147-207): the loop over the snapshot's documents
RECURSIVE AppEmployeeMapFrom(_, _, _, _, _, _, _)
AppEmployeeMapFrom(docs, entries, aliasMappings, names, companyName, month, swh) ==
  IF docs = << >> THEN entries
  ELSE LET d == Head(docs)
           prevMonth == PrevMonth(month)
           next == IF RecordSelected(d, aliasMappings, names, companyName,
                                     month, prevMonth)
                     THEN PutRecord(entries, d, month, prevMonth, swh)
                     ELSE entries
       IN  AppEmployeeMapFrom(Tail(docs), next, aliasMappings, names,
                              companyName, month, swh)

AppEmployeeMap(docs, aliasMappings, names, companyName, month, swh) ==
  AppEmployeeMapFrom(docs, << >>, aliasMappings, names, companyName, month, swh)

\* appAllowanceNames (lines 150, 160-169): for each allowance the trimmed name
\* of the last current-period record that carries one, "" when none does.
RECURSIVE AppAllowanceNamesFrom(_, _, _, _, _, _)
AppAllowanceNamesFrom(docs, acc, aliasMappings, names, companyName, month) ==
  IF docs = << >> THEN acc
  ELSE LET d == Head(docs)
           sel == RecordSelected(d, aliasMappings, names, companyName,
                                 month, PrevMonth(month))
           next == IF sel /\ d.month = month
                     THEN [i \in 1..6 |->
                             IF Trim(d.allowanceName[i]) # << >>
                               THEN Trim(d.allowanceName[i]) ELSE acc[i]]
                     ELSE acc
       IN  AppAllowanceNamesFrom(Tail(docs), next, aliasMappings, names,
                                 companyName, month)

AppAllowanceNames(docs, aliasMappings, names, companyName, month) ==
  AppAllowanceNamesFrom(docs, [i \in 1..6 |-> << >>], aliasMappings, names,
                        companyName, month)

(***************************************************************************)
(* Active field set (lines 209-222)                                        *)
(***************************************************************************)
\* `手当${i}`, the label of an allowance nobody named
FallbackLabel(i) == TEATE \o NatToStr(i)

\* The entries pushed for allowances i..6, in order.
RECURSIVE AllowanceFieldsFrom(_, _, _, _)
AllowanceFieldsFrom(i, settingsAllowanceNames, appAllowanceNames, savedMapping) ==
  IF i > 6 THEN << >>
  ELSE LET key == AllowanceKey(i)
           label == Or(settingsAllowanceNames[i], appAllowanceNames[i])
           hasMappingSetting == Trim(savedMapping[key]) # << >>
           rest == AllowanceFieldsFrom(i + 1, settingsAllowanceNames,
                                       appAllowanceNames, savedMapping)
       IN  IF label # << >> \/ hasMappingSetting
             THEN << [key |-> key, label |-> Or(label, FallbackLabel(i))] >>
                    \o rest
             ELSE rest

\* CHECK_FIELDS, had the names carried by the ledger records been left out.
CHECK_FIELDS_SettingsOnly(settingsAllowanceNames, appAllowanceNames, savedMapping) ==
  BASE_CHECK_FIELDS
    \o AllowanceFieldsFrom(1, settingsAllowanceNames, [i \in 1..6 |-> << >>],
                           savedMapping)

CHECK_FIELDS(settingsAllowanceNames, appAllowanceNames, savedMapping) ==
  BASE_CHECK_FIELDS
    \o AllowanceFieldsFrom(1, settingsAllowanceNames, appAllowanceNames,
                           savedMapping)

(***************************************************************************)
(* Header Resolver (lines 104-105, 224-283)                                *)
(***************************************************************************)
Min(a, b) == IF a < b THEN a ELSE b
Max(a, b) == IF a > b THEN a ELSE b

\* row[c] for a 0-based column c; a column past the row's end is undefined,
\* which every use treats as null.
Cell(row, c) == IF c >= 0 /\ c < Len(row) THEN row[c + 1] ELSE Null

\* HeaderRows, had the header block been the first two rows.
HeaderRowsOfTwo(allRows) == SubSeq(allRows, 1, Min(2, Len(allRows)))

\* allRows.slice(0, Math.min(3, allRows.length)) (line 105)
HeaderRows(allRows) == SubSeq(allRows, 1, Min(3, Len(allRows)))

RECURSIVE MaxRowLen(_)
MaxRowLen(rows) ==
  IF rows = << >> THEN 0 ELSE Max(Len(Head(rows)), MaxRowLen(Tail(rows)))

\* The text one header row adds to column c (line 230).
HeaderCellText(row, c) ==
  IF IsNull(Cell(row, c)) THEN << >> ELSE Trim(JsString(Cell(row, c)))

RECURSIVE HeaderText(_, _)
HeaderText(rows, c) ==
  IF rows = << >> THEN << >>
  ELSE HeaderCellText(Head(rows), c) \o HeaderText(Tail(rows), c)

\* headerCells (lines 226-234); headerCells[c + 1] is the code's headerCells[c]
HeaderCells(headerRows) ==
  [i \in 1..MaxRowLen(headerRows) |-> HeaderText(headerRows, i - 1)]

\* mapping's null
NoCol == -1

\* The test of line 244 on one header string.
HeaderMatches(h, target) ==
  h # << >> /\ (h = target \/ Includes(h, target) \/ Includes(target, h))

\* findCol (lines 237-247)
findCol(headerCells, excelName) ==
  LET target == Trim(excelName)
      hits == { c \in 1..Len(headerCells) : HeaderMatches(headerCells[c], target) }
  IN  IF target = << >> \/ hits = { } THEN NoCol
      ELSE (CHOOSE c \in hits : \A d \in hits : c <= d) - 1

\* findCol over a list of aliases, the first that resolves (lines 265-268)
RECURSIVE FindAlias(_, _)
FindAlias(headerCells, aliases) ==
  IF aliases = << >> THEN NoCol
  ELSE IF findCol(headerCells, Head(aliases)) # NoCol
    THEN findCol(headerCells, Head(aliases))
  ELSE FindAlias(headerCells, Tail(aliases))

NameAliases == << L_name, A_juugyouinmei, A_shainmei, A_namae >>
EmployeeNumberAliases ==
  << L_employeeNumber, A_juugyouinbangou, A_shainNo, A_NoDot >>

\* allMappingKeys (lines 250-254): key -> default label
DefaultLabel(checkFields, key) ==
  IF \E i \in 1..Len(checkFields) : checkFields[i].key = key
    THEN checkFields[CHOOSE i \in 1..Len(checkFields) :
                       checkFields[i].key = key
                       /\ \A j \in (i + 1)..Len(checkFields) :
                            checkFields[j].key # key].label
  ELSE IF key = "employeeNumber" THEN L_employeeNumber
  ELSE L_name

FieldKeys(checkFields) == { checkFields[i].key : i \in 1..Len(checkFields) }

\* ResolveKey with the two steps in the other order: the default label first.
ResolveKeyLabelFirst(headerCells, savedMapping, checkFields, key) ==
  IF findCol(headerCells, DefaultLabel(checkFields, key)) # NoCol
    THEN findCol(headerCells, DefaultLabel(checkFields, key))
    ELSE findCol(headerCells, savedMapping[key])

\* findCol(savedMapping[key]) ?? findCol(defaultLabel) (line 259)
ResolveKey(headerCells, savedMapping, checkFields, key) ==
  IF findCol(headerCells, savedMapping[key]) # NoCol
    THEN findCol(headerCells, savedMapping[key])
    ELSE findCol(headerCells, DefaultLabel(checkFields, key))

\* mapping (lines 256-275)
Mapping(headerCells, savedMapping, checkFields) ==
  [key \in { "employeeNumber", "name" } \cup FieldKeys(checkFields) |->
     LET col == ResolveKey(headerCells, savedMapping, checkFields, key)
     IN  IF col = NoCol /\ key = "name"
           THEN FindAlias(headerCells, NameAliases)
         ELSE IF col = NoCol /\ key = "employeeNumber"
           THEN FindAlias(headerCells, EmployeeNumberAliases)
         ELSE col]

(***************************************************************************)
(* Row Extractor (lines 285-336)                                           *)
(***************************************************************************)
\* The test of line 292 on the trimmed text of a name cell.
HeaderLike(s) ==
  \/ s = << >>
  \/ s \in { L_name, A_juugyouinmei, A_shainmei, A_namae }
  \/ Includes(s, L_name)

\* The loop of lines 287-297, from row r (0-based) with the count so far.
RECURSIVE HeaderRowCountFrom(_, _, _, _)
HeaderRowCountFrom(allRows, nameCol, r, count) ==
  IF r >= Min(5, Len(allRows)) THEN count
  ELSE LET cell == Cell(allRows[r + 1], nameCol)
       IN  IF IsNull(cell)
             THEN HeaderRowCountFrom(allRows, nameCol, r + 1, count)
           ELSE IF HeaderLike(Trim(JsString(cell)))
             THEN HeaderRowCountFrom(allRows, nameCol, r + 1, r + 1)
           ELSE count

\* headerRowCount, had the scan of lines 287-297 gone over every row.
headerRowCountUncapped(allRows, nameCol) ==
  LET IsHeader(r) ==
        /\ ~IsNull(Cell(allRows[r], nameCol))
        /\ HeaderLike(Trim(JsString(Cell(allRows[r], nameCol))))
      IsData(r) ==
        /\ ~IsNull(Cell(allRows[r], nameCol))
        /\ ~HeaderLike(Trim(JsString(Cell(allRows[r], nameCol))))
      before == { r \in 1..Len(allRows) :
                    IsHeader(r) /\ \A q \in 1..r : ~IsData(q) }
  IN  IF before = { } THEN 1 ELSE CHOOSE r \in before : \A q \in before : q <= r

headerRowCount(allRows, nameCol) == HeaderRowCountFrom(allRows, nameCol, 0, 1)

\* ExtractField, had a numeric cell that is no number kept its text.
ExtractFieldKeepingText(row, col, key) ==
  IF col # NoCol /\ ~IsNull(Cell(row, col))
    THEN IF key \in STRING_FIELDS
           THEN Str(Trim(JsString(Cell(row, col))))
           ELSE IF IsNum(Cell(row, col)) \/ IsNum(ParseFloat(JsString(Cell(row, col))))
                  THEN Num(ToNumber(Cell(row, col)))
                  ELSE Str(JsString(Cell(row, col)))
    ELSE Null

\* The value extracted for one field of one row (lines 323-333).
ExtractField(row, col, key) ==
  IF col # NoCol /\ ~IsNull(Cell(row, col))
    THEN IF key \in STRING_FIELDS
           THEN Str(Trim(JsString(Cell(row, col))))
           ELSE Num(ToNumber(Cell(row, col)))
    ELSE Null

\* The employee of one data row (lines 313-335).
ExcelEmployee(row, mapping, checkFields) ==
  [name |-> Trim(Cell(row, mapping["name"]).v),
   employeeNumber |->
     IF mapping["employeeNumber"] # NoCol
          /\ ~IsNull(Cell(row, mapping["employeeNumber"]))
       THEN Trim(JsString(Cell(row, mapping["employeeNumber"])))
       ELSE << >>,
   data |-> [key \in FieldKeys(checkFields) |->
               ExtractField(row, mapping[key], key)]]

\* The filter of line 312: the name cell is a string that is not blank.
HasName(row, nameCol) ==
  IsStr(Cell(row, nameCol)) /\ Trim(Cell(row, nameCol).v) # << >>

\* excelEmployees (lines 309-336) over the given data rows
RECURSIVE ExcelEmployeesFrom(_, _, _)
ExcelEmployeesFrom(dataRows, mapping, checkFields) ==
  IF dataRows = << >> THEN << >>
  ELSE (IF HasName(Head(dataRows), mapping["name"])
          THEN << ExcelEmployee(Head(dataRows), mapping, checkFields) >>
          ELSE << >>)
         \o ExcelEmployeesFrom(Tail(dataRows), mapping, checkFields)

\* allRows.slice(headerRowCount) (line 298), then the extraction
ExcelEmployees(allRows, mapping, checkFields) ==
  ExcelEmployeesFrom(
    SubSeq(allRows, headerRowCount(allRows, mapping["name"]) + 1, Len(allRows)),
    mapping, checkFields)

(***************************************************************************)
(* Identity Matcher (lines 39-41, 342-370)                                 *)
(***************************************************************************)
\* s with every character of `chars` removed.
RECURSIVE Without(_, _)
Without(s, chars) ==
  IF s = << >> THEN << >>
  ELSE (IF Head(s) \in chars THEN << >> ELSE << Head(s) >>)
         \o Without(Tail(s), chars)

\* normalizeName, had the pattern named the ASCII space only: / +/g
normalizeNameAsciiOnly(name) == Trim(Without(name, { " " }))

\* normalizeName (lines 39-41): name.replace(/[\s　　]+/g, "").trim()
normalizeName(name) == Trim(Without(name, WhiteSpace))

\* The loop of lines 349-355 from entry i on: the index of the first entry
\* that carries the employee number, 0 when none does.
RECURSIVE MatchByNumberFrom(_, _, _)
MatchByNumberFrom(entries, excelEmp, i) ==
  IF i > Len(entries) THEN 0
  ELSE IF /\ entries[i].employeeNumber # << >>
          /\ entries[i].employeeNumber = excelEmp.employeeNumber
    THEN i
  ELSE MatchByNumberFrom(entries, excelEmp, i + 1)

\* Lines 348-356: the first entry with this employee number, 0 when the
\* employee number is empty or nobody carries it.
MatchByNumber(entries, excelEmp) ==
  IF excelEmp.employeeNumber # << >>
    THEN MatchByNumberFrom(entries, excelEmp, 1) ELSE 0

\* The loop of lines 361-367 from entry i on.
RECURSIVE MatchByNameFrom(_, _, _)
MatchByNameFrom(entries, normalizedExcelName, i) ==
  IF i > Len(entries) THEN 0
  ELSE IF normalizeName(entries[i].name) = normalizedExcelName THEN i
  ELSE MatchByNameFrom(entries, normalizedExcelName, i + 1)

\* Lines 359-368: the first entry with the same normalized name.
MatchByName(entries, excelEmp) ==
  MatchByNameFrom(entries, normalizeName(excelEmp.name), 1)

\* MatchIndex with the two tiers in the other order: the name first.
MatchIndexNameFirst(entries, excelEmp) ==
  IF MatchByName(entries, excelEmp) # 0
    THEN MatchByName(entries, excelEmp)
    ELSE MatchByNumber(entries, excelEmp)

\* matchedApp / matchedKey (lines 344-368), as the entry's index; 0 is null
MatchIndex(entries, excelEmp) ==
  IF MatchByNumber(entries, excelEmp) # 0
    THEN MatchByNumber(entries, excelEmp)
    ELSE MatchByName(entries, excelEmp)

(***************************************************************************)
(* Field Comparator / Status Classifier (lines 374-456)                    *)
(***************************************************************************)
\* Excelにデータなし
M_noExcel ==
  << "E", "x", "c", "e", "l", "U306B", "U30C7", "U30FC", "U30BF", "U306A", "U3057" >>
\* アプリにデータなし
M_noApp ==
  << "U30A2", "U30D7", "U30EA", "U306B", "U30C7", "U30FC", "U30BF", "U306A", "U3057" >>
\* 一致
M_match == << "U4E00", "U81F4" >>
\* 不一致（Excel:_
M_mismatchHead ==
  << "U4E0D", "U4E00", "U81F4", "UFF08", "E", "x", "c", "e", "l", ":", " " >>
\* _/ アプリ:_
M_mismatchMid == << " ", "/", " ", "U30A2", "U30D7", "U30EA", ":", " " >>
\* ）
M_close == << "UFF09" >>
\* 前月変動（
M_changedHead == << "U524D", "U6708", "U5909", "U52D5", "UFF08" >>
\* _→_
M_arrow == << " ", "U2192", " " >>
\* 、差:_
M_diff == << "U3001", "U5DEE", ":", " " >>

\* bucket?.[key] ?? null
FieldOf(bucket, key) == IF IsNull(bucket) THEN Null ELSE bucket.v[key]

\* `不一致（Excel: ${a} / アプリ: ${b}）`
MismatchMessage(a, b) ==
  M_mismatchHead \o a \o M_mismatchMid \o b \o M_close

\* Line 432
ChangedMessage(prevNum, exNum) ==
  M_changedHead \o fmtNum(prevNum) \o M_arrow \o fmtNum(exNum) \o M_diff
    \o (IF exNum - prevNum > 0 THEN << "+" >> ELSE << >>)
    \o fmtNum(exNum - prevNum) \o M_close

\* DepartmentOutcome, had the two departments been compared for equality only.
DepartmentOutcomeExact(excelVal, appVal) ==
  IF Trim(JsString(excelVal)) = Trim(JsString(appVal))
    THEN [status |-> "ok", message |-> M_match]
    ELSE [status |-> "mismatch",
          message |-> MismatchMessage(Trim(JsString(excelVal)),
                                      Trim(JsString(appVal)))]

\* Lines 405-413: the department, equal or one containing the other
DepartmentOutcome(excelVal, appVal) ==
  LET exStr == Trim(JsString(excelVal))
      appStr == Trim(JsString(appVal))
      match == exStr = appStr \/ Includes(appStr, exStr) \/ Includes(exStr, appStr)
  IN  IF match THEN [status |-> "ok", message |-> M_match]
      ELSE [status |-> "mismatch", message |-> MismatchMessage(exStr, appStr)]

\* StringOutcome, had every text field been compared the way the department
\* is.
StringOutcomeOverlap(excelVal, appVal) ==
  IF \/ JsString(excelVal) = JsString(appVal)
     \/ Includes(JsString(excelVal), JsString(appVal))
     \/ Includes(JsString(appVal), JsString(excelVal))
    THEN [status |-> "ok", message |-> M_match]
    ELSE [status |-> "mismatch",
          message |-> MismatchMessage(JsString(excelVal), JsString(appVal))]

\* Lines 414-420: the other text fields, compared as strings
StringOutcome(excelVal, appVal) ==
  IF JsString(excelVal) = JsString(appVal)
    THEN [status |-> "ok", message |-> M_match]
    ELSE [status |-> "mismatch",
          message |-> MismatchMessage(JsString(excelVal), JsString(appVal))]

\* NumericOutcome, had a value equal to the previous period's been accepted
\* as well as one equal to the current period's.
NumericOutcomeAcceptingPrev(excelVal, appVal, prevVal) ==
  LET exNum == ToNumber(excelVal)
      appNum == ToNumber(appVal)
      prevNum == ToNumber(prevVal)
  IN  IF exNum = appNum \/ (~IsNull(prevVal) /\ exNum = prevNum)
        THEN IF ~IsNull(prevVal) /\ prevNum # exNum /\ prevNum > 0
               THEN [status |-> "changed",
                     message |-> ChangedMessage(prevNum, exNum)]
               ELSE [status |-> "ok", message |-> M_match]
        ELSE [status |-> "mismatch",
              message |-> MismatchMessage(fmtNum(exNum), fmtNum(appNum))]

\* NumericOutcome, had a missing previous value been read as 0 instead of
\* being tested for null.
NumericOutcomeNullPrevAsZero(excelVal, appVal, prevVal) ==
  LET exNum == ToNumber(excelVal)
      appNum == ToNumber(appVal)
      prevNum == IF IsNull(prevVal) THEN 0 ELSE ToNumber(prevVal)
  IN  IF exNum = appNum
        THEN IF prevNum # exNum
               THEN [status |-> "changed",
                     message |-> ChangedMessage(prevNum, exNum)]
               ELSE [status |-> "ok", message |-> M_match]
        ELSE [status |-> "mismatch",
              message |-> MismatchMessage(fmtNum(exNum), fmtNum(appNum))]

\* NumericOutcome without the test prevNum > 0.
NumericOutcomeAnyPrev(excelVal, appVal, prevVal) ==
  LET exNum == ToNumber(excelVal)
      appNum == ToNumber(appVal)
      prevNum == ToNumber(prevVal)
  IN  IF exNum = appNum
        THEN IF ~IsNull(prevVal) /\ prevNum # exNum
               THEN [status |-> "changed",
                     message |-> ChangedMessage(prevNum, exNum)]
               ELSE [status |-> "ok", message |-> M_match]
        ELSE [status |-> "mismatch",
              message |-> MismatchMessage(fmtNum(exNum), fmtNum(appNum))]

\* NumericOutcome, had a value that equals the ledger's and differs from the
\* previous period's been given the status warning.
NumericOutcomeWarning(excelVal, appVal, prevVal) ==
  LET exNum == ToNumber(excelVal)
      appNum == ToNumber(appVal)
      prevNum == ToNumber(prevVal)
  IN  IF exNum = appNum
        THEN IF ~IsNull(prevVal) /\ prevNum # exNum /\ prevNum > 0
               THEN [status |-> "warning",
                     message |-> ChangedMessage(prevNum, exNum)]
               ELSE [status |-> "ok", message |-> M_match]
        ELSE [status |-> "mismatch",
              message |-> MismatchMessage(fmtNum(exNum), fmtNum(appNum))]

\* Lines 421-445: the numeric fields
NumericOutcome(excelVal, appVal, prevVal) ==
  LET exNum == ToNumber(excelVal)
      appNum == ToNumber(appVal)
      prevNum == ToNumber(prevVal)
  IN  IF exNum = appNum
        THEN IF ~IsNull(prevVal) /\ prevNum # exNum /\ prevNum > 0
               THEN [status |-> "changed",
                     message |-> ChangedMessage(prevNum, exNum)]
               ELSE [status |-> "ok", message |-> M_match]
        ELSE [status |-> "mismatch",
              message |-> MismatchMessage(fmtNum(exNum), fmtNum(appNum))]

\* Lines 398-445: status and message when the spreadsheet has a value
Outcome(key, excelVal, appVal, prevVal, matched) ==
  IF ~matched \/ IsNull(appVal)
    THEN [status |-> "no_data", message |-> M_noApp]
  ELSE IF key = "department" THEN DepartmentOutcome(excelVal, appVal)
  ELSE IF key \in STRING_FIELDS THEN StringOutcome(excelVal, appVal)
  ELSE NumericOutcome(excelVal, appVal, prevVal)

CheckItem(field, excelVal, appVal, prevVal, o) ==
  [field |-> field.key, fieldLabel |-> field.label, excelValue |-> excelVal,
   appValue |-> appVal, prevMonthValue |-> prevVal,
   status |-> o.status, message |-> o.message]

\* FieldChecks, had a field without a spreadsheet value been skipped whatever
\* the ledger holds.
FieldChecksSkippingAbsent(field, excelEmp, matched, matchedApp) ==
  LET excelVal == excelEmp.data[field.key]
      appVal == IF matched THEN FieldOf(matchedApp.current, field.key) ELSE Null
      prevVal == IF matched THEN FieldOf(matchedApp.prev, field.key) ELSE Null
  IN  IF IsNull(excelVal) THEN << >>
      ELSE << CheckItem(field, excelVal, appVal, prevVal,
                        Outcome(field.key, excelVal, appVal, prevVal, matched)) >>

\* One turn of the loop of lines 374-456: the check items of one field, none
\* or one.  `matchedApp` is the matched entry and `matched` tells whether
\* there is one.
FieldChecks(field, excelEmp, matched, matchedApp) ==
  LET excelVal == excelEmp.data[field.key]
      appVal == IF matched THEN FieldOf(matchedApp.current, field.key) ELSE Null
      prevVal == IF matched THEN FieldOf(matchedApp.prev, field.key) ELSE Null
  IN  IF IsNull(excelVal) /\ IsNull(appVal) THEN << >>
      ELSE IF IsNull(excelVal)
        THEN IF ~Falsy(appVal)
               THEN << CheckItem(field, Null, appVal, prevVal,
                                 [status |-> "no_data", message |-> M_noExcel]) >>
               ELSE << >>
      ELSE << CheckItem(field, excelVal, appVal, prevVal,
                        Outcome(field.key, excelVal, appVal, prevVal, matched)) >>

RECURSIVE ChecksFrom(_, _, _, _)
ChecksFrom(fields, excelEmp, matched, matchedApp) ==
  IF fields = << >> THEN << >>
  ELSE FieldChecks(Head(fields), excelEmp, matched, matchedApp)
         \o ChecksFrom(Tail(fields), excelEmp, matched, matchedApp)

\* EmployeeResult, had an unmatched employee kept the number of its row.
EmployeeResultKeepingNumber(entries, checkFields, excelEmp) ==
  LET k == MatchIndex(entries, excelEmp)
      matchedApp == IF k # 0 THEN entries[k] ELSE Null
  IN  [name |-> excelEmp.name,
       employeeNumber |->
         IF k # 0 THEN matchedApp.employeeNumber ELSE excelEmp.employeeNumber,
       checks |-> ChecksFrom(checkFields, excelEmp, k # 0, matchedApp)]

\* The entry pushed to results for one spreadsheet employee (lines 372-462).
EmployeeResult(entries, checkFields, excelEmp) ==
  LET k == MatchIndex(entries, excelEmp)
      matchedApp == IF k # 0 THEN entries[k] ELSE Null
  IN  [name |-> excelEmp.name,
       employeeNumber |-> IF k # 0 THEN matchedApp.employeeNumber ELSE << >>,
       checks |-> ChecksFrom(checkFields, excelEmp, k # 0, matchedApp)]

(***************************************************************************)
(* People diff (lines 465-489)                                             *)
(***************************************************************************)
\* IsActiveEntry without the test e.current != null.
IsActiveEntryAnyPeriod(e) == e.status # TAISHA

\* activeAppEntries (lines 466-468)
IsActiveEntry(e) == e.status # TAISHA /\ ~IsNull(e.current)

\* The entries behind `missing` (lines 466-470), before their names are taken.
MissingEntries(entries, matchedAppKeys) ==
  LET Unmatched(e) == IsActiveEntry(e) /\ e.key \notin matchedAppKeys
  IN  SelectSeq(entries, Unmatched)

\* FoundInApp, had the second pass compared the names as they are written.
FoundInAppRawName(entries, excelEmp) ==
  \/ /\ excelEmp.employeeNumber # << >>
     /\ \E i \in 1..Len(entries) :
          entries[i].employeeNumber = excelEmp.employeeNumber
  \/ \E i \in 1..Len(entries) : entries[i].name = excelEmp.name

\* FoundInApp, had the second pass looked the employee up by number only.
FoundInAppByNumberOnly(entries, excelEmp) ==
  /\ excelEmp.employeeNumber # << >>
  /\ \E i \in 1..Len(entries) :
       entries[i].employeeNumber = excelEmp.employeeNumber

\* The lookup of lines 475-486 for one spreadsheet employee.
FoundInApp(entries, excelEmp) ==
  \/ /\ excelEmp.employeeNumber # << >>
     /\ \E i \in 1..Len(entries) :
          entries[i].employeeNumber = excelEmp.employeeNumber
  \/ \E i \in 1..Len(entries) :
       normalizeName(entries[i].name) = normalizeName(excelEmp.name)

\* matchedExcelKeys (lines 473-488): a Set keeps one copy of each name, in
\* the order of first insertion.
RECURSIVE NewInExcelFrom(_, _, _)
NewInExcelFrom(excelEmployees, entries, acc) ==
  IF excelEmployees = << >> THEN acc
  ELSE LET e == Head(excelEmployees)
           seen == \E i \in 1..Len(acc) : acc[i] = e.name
           next == IF ~FoundInApp(entries, e) /\ ~seen
                     THEN Append(acc, e.name) ELSE acc
       IN  NewInExcelFrom(Tail(excelEmployees), entries, next)

NewInExcel(excelEmployees, entries) ==
  NewInExcelFrom(excelEmployees, entries, << >>)

(***************************************************************************)
(* The handler POST (lines 48-511) as a sequence of steps                  *)
(***************************************************************************)
NoResponse == [kind |-> "none"]
\* status 400, lines 57-62 and 97-102
InvalidInput == [kind |-> "InvalidInput", status |-> 400]
\* status 400, lines 278-283
MissingRequiredColumn == [kind |-> "MissingRequiredColumn", status |-> 400]
\* status 500, the catch of lines 505-510
UnexpectedFailure == [kind |-> "UnexpectedFailure", status |-> 500]

NoHints == [key \in MappingKeySet |-> << >>]
NoAllowanceNames == [i \in 1..6 |-> << >>]

\* The handler's locals before the first statement.
InitialLocals ==
  [savedMapping |-> NoHints, settingsAllowanceNames |-> NoAllowanceNames,
   allRows |-> << >>, aliasMappings |-> << >>, matchingNames |-> { },
   standardWorkingHours |-> 160 * Scale, snapshot |-> << >>,
   appEmployeeMap |-> << >>, appAllowanceNames |-> NoAllowanceNames,
   checkFields |-> << >>, headerCells |-> << >>, mapping |-> << >>,
   excelEmployees |-> << >>, i |-> 0, matchedKeys |-> << >>,
   results |-> << >>, matchedAppKeys |-> { },
   missingEntries |-> << >>, missing |-> << >>, newInExcel |-> << >>]

\* JSON.parse of an optional form field, {} when it is absent or malformed
\* (lines 64-83).
ParsedOr(field, default) == IF field.t = "obj" THEN field.v ELSE default

Fail(r) ==
  /\ response' = r
  /\ pc' = "done"

\* Lines 50-83: the form data is read and the required inputs are checked.
CheckRequired ==
  /\ pc = "start"
  /\ IF ~req.file.present \/ req.companyName = << >> \/ req.month = << >>
       THEN Fail(InvalidInput) /\ UNCHANGED loc
       ELSE /\ loc' = [loc EXCEPT
                 !.savedMapping = ParsedOr(req.excelMapping, NoHints),
                 !.settingsAllowanceNames =
                    ParsedOr(req.allowanceNames, NoAllowanceNames)]
            /\ pc' = "parse"
            /\ UNCHANGED response
  /\ UNCHANGED << store, req, reads >>

\* ParseWorkbook without the test of lines 97-102 on the number of rows.
ParseWorkbookWithoutRowCheck ==
  /\ pc = "parse"
  /\ IF req.file.corrupt THEN Fail(UnexpectedFailure) /\ UNCHANGED loc
     ELSE /\ loc' = [loc EXCEPT !.allRows = req.file.rows]
          /\ pc' = "readAliases"
          /\ UNCHANGED response
  /\ UNCHANGED << store, req, reads >>

\* Lines 85-102: the workbook is parsed (XLSX.read throws on a file it cannot
\* read) and the row count checked.
ParseWorkbook ==
  /\ pc = "parse"
  /\ IF req.file.corrupt THEN Fail(UnexpectedFailure) /\ UNCHANGED loc
     ELSE IF Len(req.file.rows) < 2 THEN Fail(InvalidInput) /\ UNCHANGED loc
     ELSE /\ loc' = [loc EXCEPT !.allRows = req.file.rows]
          /\ pc' = "readAliases"
          /\ UNCHANGED response
  /\ UNCHANGED << store, req, reads >>

\* Line 114 throws: the store is unavailable.
ReadFails(collection) ==
  /\ reads' = Append(reads, collection)
  /\ Fail(UnexpectedFailure)
  /\ UNCHANGED << store, req, loc >>

\* Lines 114-122: appSettings/companyAliases is read.
ReadAliases ==
  /\ pc = "readAliases"
  /\ \/ /\ reads' = Append(reads, "appSettings")
        /\ loc' = [loc EXCEPT
             !.aliasMappings = AliasMappings(store.appSettings),
             !.matchingNames =
                MatchingNames(AliasMappings(store.appSettings), req.companyName)]
        /\ pc' = "readSettings"
        /\ UNCHANGED << store, req, response >>
     \/ ReadFails("appSettings")

\* Lines 124-135: companySettings is read.
ReadCompanySettings ==
  /\ pc = "readSettings"
  /\ \/ /\ reads' = Append(reads, "companySettings")
        /\ loc' = [loc EXCEPT !.standardWorkingHours =
                     StandardWorkingHours(store.companySettings,
                                          loc.matchingNames, req.companyName)]
        /\ pc' = "readPayroll"
        /\ UNCHANGED << store, req, response >>
     \/ ReadFails("companySettings")

\* Line 137: monthlyPayroll is read.
ReadPayroll ==
  /\ pc = "readPayroll"
  /\ \/ /\ reads' = Append(reads, "monthlyPayroll")
        /\ loc' = [loc EXCEPT !.snapshot = store.monthlyPayroll]
        /\ pc' = "build"
        /\ UNCHANGED << store, req, response >>
     \/ ReadFails("monthlyPayroll")

\* Lines 139-207: the loop over the snapshot's documents.
BuildSnapshot ==
  /\ pc = "build"
  /\ loc' = [loc EXCEPT
       !.appEmployeeMap =
          AppEmployeeMap(loc.snapshot, loc.aliasMappings, loc.matchingNames,
                         req.companyName, req.month, loc.standardWorkingHours),
       !.appAllowanceNames =
          AppAllowanceNames(loc.snapshot, loc.aliasMappings, loc.matchingNames,
                            req.companyName, req.month)]
  /\ pc' = "fields"
  /\ UNCHANGED << store, req, reads, response >>

\* Lines 209-222
BuildCheckFields ==
  /\ pc = "fields"
  /\ loc' = [loc EXCEPT !.checkFields =
               CHECK_FIELDS(loc.settingsAllowanceNames, loc.appAllowanceNames,
                            loc.savedMapping)]
  /\ pc' = "columns"
  /\ UNCHANGED << store, req, reads, response >>

\* ResolveColumns without the test of lines 277-283 on the name column.
ResolveColumnsWithoutNameCheck ==
  /\ pc = "columns"
  /\ loc' = [loc EXCEPT
       !.headerCells = HeaderCells(HeaderRows(loc.allRows)),
       !.mapping = Mapping(HeaderCells(HeaderRows(loc.allRows)),
                           loc.savedMapping, loc.checkFields)]
  /\ pc' = "extract"
  /\ UNCHANGED << store, req, reads, response >>

\* Lines 224-283: the columns are resolved; without a name column the run
\* ends.
ResolveColumns ==
  /\ pc = "columns"
  /\ LET headerCells == HeaderCells(HeaderRows(loc.allRows))
         mapping == Mapping(headerCells, loc.savedMapping, loc.checkFields)
     IN  /\ loc' = [loc EXCEPT !.headerCells = headerCells,
                               !.mapping = mapping]
         /\ IF mapping["name"] = NoCol
              THEN Fail(MissingRequiredColumn)
              ELSE pc' = "extract" /\ UNCHANGED response
  /\ UNCHANGED << store, req, reads >>

\* Lines 285-336
Extract ==
  /\ pc = "extract"
  /\ loc' = [loc EXCEPT !.excelEmployees =
               ExcelEmployees(loc.allRows, loc.mapping, loc.checkFields)]
  /\ pc' = "compare"
  /\ UNCHANGED << store, req, reads, response >>

\* CompareOne, had the loop looked for a match only among the ledger entries
\* no earlier row was matched to.
CompareOneExcludingMatched ==
  /\ pc = "compare"
  /\ loc.i < Len(loc.excelEmployees)
  /\ LET excelEmp == loc.excelEmployees[loc.i + 1]
         Unmatched(e) == e.key \notin loc.matchedAppKeys
         entries == SelectSeq(loc.appEmployeeMap, Unmatched)
         k == MatchIndex(entries, excelEmp)
         matchedKey == IF k # 0 THEN entries[k].key ELSE << >>
     IN  loc' = [loc EXCEPT
           !.i = @ + 1,
           !.matchedKeys = Append(@, matchedKey),
           !.matchedAppKeys = IF matchedKey # << >> THEN @ \cup { matchedKey }
                              ELSE @,
           !.results = Append(@, EmployeeResult(entries, loc.checkFields,
                                                excelEmp))]
  /\ UNCHANGED << store, req, pc, reads, response >>

\* One turn of the loop of lines 342-463, for excelEmployees[i] (0-based i):
\* the employee is matched, its key recorded, its result pushed.
\* loc.matchedKeys keeps the turn's matchedKey, "" for null.
CompareOne ==
  /\ pc = "compare"
  /\ loc.i < Len(loc.excelEmployees)
  /\ LET excelEmp == loc.excelEmployees[loc.i + 1]
         k == MatchIndex(loc.appEmployeeMap, excelEmp)
         matchedKey == IF k # 0 THEN loc.appEmployeeMap[k].key ELSE << >>
     IN  loc' = [loc EXCEPT
           !.i = @ + 1,
           !.matchedKeys = Append(@, matchedKey),
           !.matchedAppKeys = IF matchedKey # << >> THEN @ \cup { matchedKey }
                              ELSE @,
           !.results = Append(@, EmployeeResult(loc.appEmployeeMap,
                                                loc.checkFields, excelEmp))]
  /\ UNCHANGED << store, req, pc, reads, response >>

\* e.name of each entry (line 471)
Names(entries) == [j \in 1..Len(entries) |-> entries[j].name]

\* Lines 465-489, after the loop
PeopleDiff ==
  /\ pc = "compare"
  /\ loc.i = Len(loc.excelEmployees)
  /\ LET entries == MissingEntries(loc.appEmployeeMap, loc.matchedAppKeys)
     IN  loc' = [loc EXCEPT
           !.missingEntries = entries,
           !.missing = Names(entries),
           !.newInExcel = NewInExcel(loc.excelEmployees, loc.appEmployeeMap)]
  /\ pc' = "respond"
  /\ UNCHANGED << store, req, reads, response >>

\* cleanMapping (lines 491-496)
CleanMapping(mapping, checkFields) ==
  [key \in FieldKeys(checkFields) \cup { "name" } |-> mapping[key]]

Report ==
  [kind |-> "report", status |-> 200, month |-> req.month,
   mapping |-> CleanMapping(loc.mapping, loc.checkFields),
   results |-> loc.results, missing |-> loc.missing,
   newInExcel |-> loc.newInExcel]

\* Respond, had the handler remembered the resolved columns in the company's
\* settings.
RespondSavingMapping ==
  /\ pc = "respond"
  /\ response' = Report
  /\ pc' = "done"
  /\ store' = [store EXCEPT !.companySettings =
                 Append(@, [shortName |-> req.companyName,
                            officialName |-> req.companyName,
                            standardWorkingHours |-> Null,
                            excelMapping |-> loc.mapping])]
  /\ UNCHANGED << req, loc, reads >>

\* Lines 491-504
Respond ==
  /\ pc = "respond"
  /\ response' = Report
  /\ pc' = "done"
  /\ UNCHANGED << store, req, loc, reads >>

\* The steps of the handler.
Next ==
  \/ CheckRequired
  \/ ParseWorkbook
  \/ ReadAliases
  \/ ReadCompanySettings
  \/ ReadPayroll
  \/ BuildSnapshot
  \/ BuildCheckFields
  \/ ResolveColumns
  \/ Extract
  \/ CompareOne
  \/ PeopleDiff
  \/ Respond

(***************************************************************************)
(* Inputs: stores and requests                                             *)
(***************************************************************************)
CompanyA == << "A" >>
CompanyARaw == << "A", "-", "r", "a", "w" >>
CompanyB == << "B" >>
MonthCur == << "2", "0", "2", "5", "-", "0", "3" >>   \* 2025-03
MonthPrev == << "2", "0", "2", "5", "-", "0", "2" >>  \* 2025-02
ZAISEKI == << "U5728", "U7C4D" >>                      \* 在籍
YAMADA == << "U5C71", "U7530", "U592A", "U90CE" >>     \* 山田太郎
YAMADA_SP == << "U5C71", "U7530", " ", "U592A", "U90CE" >>      \* 山田 太郎
YAMADA_ZSP == << "U5C71", "U7530", "U3000", "U592A", "U90CE" >> \* 山田　太郎
SATO == << "U4F50", "U85E4", "U82B1", "U5B50" >>       \* 佐藤花子
SUZUKI == << "U9234", "U6728", "U4E00", "U90CE" >>     \* 鈴木一郎
EIGYO == << "U55B6", "U696D", "U90E8" >>               \* 営業部
EIGYO1 == << "U55B6", "U696D", "U90E8", "U7B2C", "U4E00", "U8AB2" >>  \* 営業部第一課
SOUMU == << "U7DCF", "U52D9", "U90E8" >>               \* 総務部
SHOKUMU == << "U8077", "U52D9", "U624B", "U5F53" >>    \* 職務手当

\* An amount of n yen.
Yen(n) == Num(n * Scale)

\* The fields of a ledger document: those of `ov`, the others undefined.
Fields(ov) == [k \in AllFieldKeySet |-> IF k \in DOMAIN ov THEN ov[k] ELSE Null]

\* A monthlyPayroll document.
Doc(company, kid, empno, name, month, status, ov) ==
  [companyShortName |-> company, companyName |-> company, name |-> name,
   month |-> month, kintoneRecordId |-> kid, employeeNumber |-> empno,
   status |-> status, f |-> Fields(ov), allowanceName |-> NoAllowanceNames]

\* A store holding these payroll documents, the settings of company A and an
\* alias of company A.
Store(docs) ==
  [monthlyPayroll |-> docs,
   companySettings |->
     << [shortName |-> CompanyA, officialName |-> CompanyA,
         standardWorkingHours |-> Null] >>,
   appSettings |-> [exists |-> TRUE,
                    mappings |-> << << CompanyARaw, CompanyA >> >>]]

Obj(v) == [t |-> "obj", v |-> v]

\* A request for company A and the current month with this cell matrix.
Request(rows, excelMapping, allowanceNames) ==
  [file |-> [present |-> TRUE, corrupt |-> FALSE, rows |-> rows],
   companyName |-> CompanyA, month |-> MonthCur,
   excelMapping |-> excelMapping, allowanceNames |-> allowanceNames]

\* The same with no file part.
RequestWithoutFile ==
  [Request(<< >>, Null, Null) EXCEPT !.file.present = FALSE]

\* The same with a file XLSX cannot read.
RequestCorruptFile ==
  [Request(<< >>, Null, Null) EXCEPT !.file.corrupt = TRUE]

\* All sequences over S of length at most n.
SeqsUpTo(S, n) == UNION { [1..m -> S] : m \in 0..n }

InitWith(stores, requests) ==
  /\ store \in stores
  /\ req \in requests
  /\ pc = "start"
  /\ loc = InitialLocals
  /\ reads = << >>
  /\ response = NoResponse

(***************************************************************************)
(* Spec: identities.  Stores of up to MaxDocs documents, spreadsheets of   *)
(* up to MaxRows data rows.                                                *)
(***************************************************************************)
MaxDocs == 2
MaxRows == 2

K1 == << "k", "1" >>
K2 == << "k", "2" >>
K3 == << "k", "3" >>
K4 == << "k", "4" >>
No1 == << "0", "0", "1" >>
No2 == << "0", "0", "2" >>
No3 == << "0", "0", "3" >>

IdentityDocs ==
  { Doc(CompanyA, K1, No1, YAMADA, MonthCur, ZAISEKI, << >>),
    Doc(CompanyA, K1, No1, YAMADA, MonthCur, TAISHA, << >>),
    Doc(CompanyA, K1, No1, YAMADA, MonthPrev, ZAISEKI, << >>),
    Doc(CompanyA, K2, No2, YAMADA, MonthCur, ZAISEKI, << >>),
    Doc(CompanyARaw, K3, No1, SUZUKI, MonthCur, ZAISEKI, << >>),
    Doc(CompanyA, << >>, << >>, YAMADA_ZSP, MonthCur, << >>, << >>),
    Doc(CompanyB, K4, No3, SATO, MonthCur, ZAISEKI, << >>) }

IdentityHeader == << Str(L_employeeNumber), Str(L_name) >>

IdentityRows ==
  { << Str(No1), Str(SATO) >>,
    << Null, Str(SATO) >>,
    << Str(No2), Str(YAMADA) >>,
    << Null, Str(YAMADA_SP) >> }

IdentityRequests ==
  { Request(<< IdentityHeader >> \o rows, Null, Null) :
      rows \in SeqsUpTo(IdentityRows, MaxRows) }
    \cup { RequestWithoutFile, RequestCorruptFile,
           Request(<< << Str(L_employeeNumber) >>, << Str(No1) >> >>, Null, Null) }

Init ==
  InitWith({ Store(docs) : docs \in SeqsUpTo(IdentityDocs, MaxDocs) },
           IdentityRequests)

Spec == Init /\ [][Next]_vars

(***************************************************************************)
(* SpecValues: one employee, one field compared.  The spreadsheet value,   *)
(* the ledger's current value and its previous value of the field range    *)
(* over every combination of the values below, a missing document          *)
(* included.                                                               *)
(***************************************************************************)
NoDoc == [t |-> "nodoc"]

Grade20 == << "2", "0" >>
Grade21 == << "2", "1" >>

\* The values of a numeric field, around the amounts a and b: absent, zero,
\* a, b, a as text, text that is no number, a negative amount.
NumericExcelValues(a, b) ==
  { Null, Yen(0), Yen(a), Yen(b), Str(NatToStr(a)), Str(<< "x" >>) }
NumericCurrentValues(a, b) ==
  { NoDoc, Null, Yen(0), Yen(a), Yen(b), Str(NatToStr(a)) }
NumericPrevValues(a, b) ==
  { NoDoc, Null, Yen(0), Yen(a), Yen(b), Yen(-100) }

\* The field compared, the header of its column, what the ledger documents
\* carry besides it, the allowance names of the request, and the values.
ValueCases ==
  { [key |-> "baseSalary", header |-> L_baseSalary, other |-> << >>,
     names |-> Null, excel |-> NumericExcelValues(2000, 2500),
     current |-> NumericCurrentValues(2000, 2500),
     prev |-> NumericPrevValues(2000, 2500)],
    [key |-> "unitPrice", header |-> L_unitPrice,
     other |-> [baseSalary |-> Yen(3200)],
     names |-> Null, excel |-> NumericExcelValues(20, 25),
     current |-> NumericCurrentValues(20, 25),
     prev |-> NumericPrevValues(20, 25)],
    [key |-> "allowance1", header |-> SHOKUMU, other |-> << >>,
     names |-> Obj([NoAllowanceNames EXCEPT ![1] = SHOKUMU]),
     excel |-> NumericExcelValues(2000, 2500),
     current |-> NumericCurrentValues(2000, 2500),
     prev |-> NumericPrevValues(2000, 2500)],
    [key |-> "department", header |-> L_department, other |-> << >>,
     names |-> Null,
     excel |-> { Null, Str(EIGYO), Str(EIGYO1), Str(SOUMU), Str(<< " " >>) },
     current |-> { NoDoc, Null, Str(EIGYO), Str(EIGYO1 \o << " " >>), Str(SOUMU) },
     prev |-> { NoDoc, Str(EIGYO), Str(SOUMU) }],
    [key |-> "socialInsuranceGrade", header |-> L_socialInsuranceGrade,
     other |-> << >>, names |-> Null,
     excel |-> { Null, Str(Grade20), Yen(20), Str(Grade21) },
     current |-> { NoDoc, Null, Str(Grade20), Yen(20), Str(Grade21) },
     prev |-> { NoDoc, Str(Grade20), Str(Grade21) }] }

\* The ledger document of the employee for one period, none for NoDoc.
ValueDocs(case, month, v) ==
  IF v = NoDoc THEN << >>
  ELSE << Doc(CompanyA, K1, No1, YAMADA, month, ZAISEKI,
              [k \in DOMAIN case.other \cup { case.key } |->
                 IF k = case.key THEN v ELSE case.other[k]]) >>

ValueStore(case, c, p) ==
  Store(ValueDocs(case, MonthPrev, p) \o ValueDocs(case, MonthCur, c))

ValueRequest(case, x) ==
  Request(<< << Str(L_name), Str(case.header) >>, << Str(YAMADA), x >> >>,
          Null, case.names)

InitValues ==
  \E case \in ValueCases :
    InitWith({ ValueStore(case, c, p) : c \in case.current, p \in case.prev },
             { ValueRequest(case, x) : x \in case.excel })

SpecValues == InitValues /\ [][Next]_vars

(***************************************************************************)
(* SpecNames: one ledger employee and one spreadsheet employee, their      *)
(* names ranging over every string of letters and white space up to a      *)
(* length.                                                                 *)
(***************************************************************************)
MaxLedgerNameLen == 2
MaxNameLen == 3

NameAlphabet == { "U5C71", "U7530", " ", "U3000" }

InitNames ==
  InitWith({ Store(<< Doc(CompanyA, << >>, << >>, n, MonthCur, ZAISEKI, << >>) >>) :
               n \in SeqsUpTo(NameAlphabet, MaxLedgerNameLen) },
           { Request(<< << Str(L_name) >>, << Str(n) >> >>, Null, Null) :
               n \in SeqsUpTo(NameAlphabet, MaxNameLen) })

SpecNames == InitNames /\ [][Next]_vars

(***************************************************************************)
(* SpecColumns: header blocks.  Spreadsheets of up to MaxHeaderRows header *)
(* rows drawn from the rows below, followed by MaxDataRows data rows,      *)
(* with and without saved hints.                                           *)
(***************************************************************************)
MaxHeaderRows == 2
MaxDataRows == 2

SHI == << "U6C0F" >>                                   \* 氏
MEI_SP == << " ", "U540D", " " >>                      \* 名, blanks around it
KIHON == << "U57FA", "U672C" >>                        \* 基本
KYU == << "U7D66" >>                                   \* 給
SHIMEIRAN == << "U6C0F", "U540D", "U6B04" >>           \* 氏名欄

HeaderRowPool ==
  { << Str(L_name), Str(L_baseSalary) >>,
    << Str(L_baseSalary), Str(L_name) >>,
    << Str(SHI), Str(KIHON) >>,
    << Str(MEI_SP), Str(KYU) >>,
    << Str(A_shainmei), Str(L_name) >>,
    << Null, Str(A_shainmei) >>,
    << Null, Null >>,
    << Str(A_namae), Str(L_baseSalary), Str(L_employeeNumber) >>,
    << Str(<< >>), Str(L_name) >>,
    << Yen(5) >> }

ColumnDataRows ==
  << << Str(YAMADA), Yen(2000), Str(No1) >>,
     << Str(YAMADA_SP), Yen(3500), Null >>,
     << Str(SATO), Yen(2500), Str(No2) >>,
     << Str(SUZUKI), Yen(3000), Str(No3) >> >>

Hints(ov) == Obj([k \in MappingKeySet |-> IF k \in DOMAIN ov THEN ov[k] ELSE << >>])

ColumnHints ==
  { Null,
    Hints([name |-> A_shainmei]),
    Hints([name |-> << " " >>, baseSalary |-> MEI_SP]),
    Hints([name |-> SHIMEIRAN, baseSalary |-> KYU]) }

\* Nothing, or two blank rows, between the header rows and the data rows.
ColumnPadding == { << >>, << << Null, Null >>, << Null, Null >> >> }

ColumnRequests ==
  { Request(header \o padding \o SubSeq(ColumnDataRows, 1, MaxDataRows),
            hints, Null) :
      header \in SeqsUpTo(HeaderRowPool, MaxHeaderRows) \ { << >> },
      padding \in ColumnPadding, hints \in ColumnHints }

InitColumns ==
  InitWith({ Store(<< Doc(CompanyA, K1, No1, YAMADA, MonthCur, ZAISEKI,
                          [baseSalary |-> Yen(2000)]) >>) },
           ColumnRequests)

SpecColumns == InitColumns /\ [][Next]_vars

(***************************************************************************)
(* SpecInputs: the required inputs.  The file part is absent, unreadable   *)
(* or a sheet of up to MaxInputRows rows; the company name and the period  *)
(* are given or not.  The handler, once called, runs to its response.      *)
(***************************************************************************)
MaxInputRows == 3

InputRows ==
  << IdentityHeader,
     << Str(No1), Str(YAMADA) >>,
     << Str(No2), Str(SATO) >>,
     << Null, Str(SUZUKI) >>,
     << Str(No3), Str(YAMADA_SP) >> >>

InputFiles ==
  { [present |-> FALSE, corrupt |-> FALSE, rows |-> << >>],
    [present |-> TRUE, corrupt |-> TRUE, rows |-> << >>] }
    \cup { [present |-> TRUE, corrupt |-> FALSE, rows |-> SubSeq(InputRows, 1, n)] :
             n \in 0..MaxInputRows }

InputRequests ==
  { [file |-> f, companyName |-> c, month |-> m,
     excelMapping |-> Null, allowanceNames |-> Null] :
      f \in InputFiles, c \in { << >>, CompanyA }, m \in { << >>, MonthCur } }

InitInputs ==
  InitWith({ Store(docs) : docs \in SeqsUpTo(IdentityDocs, 1) }, InputRequests)

SpecInputs == InitInputs /\ [][Next]_vars /\ WF_vars(Next)

(***************************************************************************)
(* SpecFields: the sources of an allowance's name.  The settings sent with *)
(* the request, the ledger record and the saved hints each name the first  *)
(* allowance, leave it blank or leave it out; the ledger record does the   *)
(* same for the second.                                                    *)
(***************************************************************************)
YAKUSHOKU == << "U5F79", "U8077", "U624B", "U5F53" >>  \* 役職手当
TSUKIN2 == << "U4F4F", "U5B85" >>                      \* 住宅

FieldRecordNames == { << >>, << " " >>, SHOKUMU }
FieldSettingsNames == { << >>, << " " >>, YAKUSHOKU }
FieldHints == { << >>, << " " >>, TSUKIN2 }

FieldDocs ==
  { [Doc(company, K1, No1, YAMADA, month, ZAISEKI, [allowance1 |-> Yen(2000)])
       EXCEPT !.allowanceName = [NoAllowanceNames EXCEPT ![1] = a1, ![2] = a2]] :
      company \in { CompanyA, CompanyB }, month \in { MonthCur, MonthPrev },
      a1 \in FieldRecordNames, a2 \in FieldRecordNames }

FieldRequests ==
  { Request(<< << Str(L_name), Str(SHOKUMU), Str(TSUKIN2) >>,
               << Str(YAMADA), Yen(2000), Yen(300) >> >>,
            Hints([allowance1 |-> h]), names) :
      h \in FieldHints,
      names \in { Null } \cup { Obj([NoAllowanceNames EXCEPT ![1] = s]) :
                                 s \in FieldSettingsNames } }

InitFields ==
  InitWith({ Store(<< d >>) : d \in FieldDocs }, FieldRequests)

SpecFields == InitFields /\ [][Next]_vars

(***************************************************************************)
(* SpecRows: the name column.  Sheets of one column and up to MaxSheetRows *)
(* rows: the first cell is a header word or a name, every later cell is    *)
(* missing, blank, header-like, a name or a number.                        *)
(***************************************************************************)
MaxSheetRows == 6

FirstNameCells == { Str(A_namae), Str(YAMADA) }
NameCells == { Null, Str(<< " " >>), Str(SHIMEIRAN), Str(YAMADA_SP), Yen(5) }

RowRequests ==
  { Request(<< << first >> >> \o [r \in 1..Len(cells) |-> << cells[r] >>],
            Null, Null) :
      first \in FirstNameCells,
      cells \in SeqsUpTo(NameCells, MaxSheetRows - 1) \ { << >> } }

InitRows ==
  InitWith({ Store(<< Doc(CompanyA, K1, No1, YAMADA, MonthCur, ZAISEKI, << >>) >>) },
           RowRequests)

SpecRows == InitRows /\ [][Next]_vars

(***************************************************************************)
(* SpecLedger: the ledger side.  Four families of stores, each read by a   *)
(* request with a one-employee sheet: records of one employee over many    *)
(* months read for several target months; records under several company    *)
(* names and alias tables; records of several identities with and without  *)
(* a value; and records with and without a unit price under several        *)
(* standard working hours.                                                 *)
(***************************************************************************)
MaxLedgerDocs == 2

\* The two digits of a month number, and the period YYYY-MM.
TwoDigits(n) == << Digits[(n \div 10) + 1], Digits[(n % 10) + 1] >>
YM(y, m) == NatToStr(y) \o << "-" >> \o TwoDigits(m)

LedgerRequest(month) ==
  [Request(<< << Str(L_name), Str(L_baseSalary), Str(L_unitPrice) >>,
              << Str(YAMADA), Yen(2000), Yen(20) >> >>, Null, Null)
     EXCEPT !.month = month]

\* A store with these documents, this alias document and these standard
\* working hours of company A.
LedgerStore(docs, appSettings, hours) ==
  [Store(docs) EXCEPT !.appSettings = appSettings,
                      !.companySettings[1].standardWorkingHours = hours]

AliasA == [exists |-> TRUE, mappings |-> << << CompanyARaw, CompanyA >> >>]

\* Periods: the months of the records and the target months.
PeriodMonths ==
  { YM(2024, 1), YM(2024, 12), YM(2025, 1), YM(2025, 2), YM(2025, 3),
    YM(2025, 9), YM(2025, 10), YM(2025, 11), YM(2025, 12), YM(2026, 1) }
TargetMonths == { YM(2025, 1), YM(2025, 3), YM(2025, 10), YM(2025, 12) }

\* The record of a month carries the month in its base salary.
PeriodDoc(month) ==
  Doc(CompanyA, K1, No1, YAMADA, month, ZAISEKI,
      [baseSalary |-> Yen(DigitsVal(SubSeq(month, 3, 4)) * 100
                            + DigitsVal(SubSeq(month, 6, 7)))])

InitPeriods ==
  InitWith({ LedgerStore(docs, AliasA, Null) :
               docs \in SeqsUpTo({ PeriodDoc(m) : m \in PeriodMonths },
                                 MaxLedgerDocs) },
           { LedgerRequest(m) : m \in TargetMonths })

\* Companies: the same employee under several short and official company
\* names, each record with its own base salary, and an employee of company B.
CompanyDoc(short, official, n) ==
  [Doc(CompanyA, K1, No1, YAMADA, MonthCur, ZAISEKI, [baseSalary |-> Yen(n)])
     EXCEPT !.companyShortName = short, !.companyName = official]

CompanyDocs ==
  { CompanyDoc(CompanyA, CompanyA, 1), CompanyDoc(CompanyARaw, << >>, 2),
    CompanyDoc(<< >>, CompanyA, 3), CompanyDoc(CompanyB, CompanyA, 4),
    CompanyDoc(<< >>, CompanyB, 5), CompanyDoc(CompanyA, CompanyB, 6),
    CompanyDoc(<< >>, << >>, 7), CompanyDoc(<< >>, CompanyARaw, 8),
    Doc(CompanyB, K2, No2, SATO, MonthCur, ZAISEKI, [baseSalary |-> Yen(9)]) }

AliasTables ==
  { [exists |-> FALSE, mappings |-> << >>],
    AliasA,
    [exists |-> TRUE,
     mappings |-> << << CompanyARaw, CompanyA >>, << CompanyA, CompanyB >> >>],
    [exists |-> TRUE, mappings |-> << << CompanyB, CompanyA >> >>] }

InitCompanies ==
  InitWith({ LedgerStore(docs, t, Null) :
               docs \in SeqsUpTo(CompanyDocs, MaxLedgerDocs), t \in AliasTables },
           { LedgerRequest(MonthCur) })

\* Buckets: records with a record id, with an employee number only and with
\* a name only, of both periods, with and without a base salary.
BucketIdentities ==
  { << K1, No1, YAMADA >>, << << >>, No1, SATO >>, << << >>, No1, YAMADA >>,
    << << >>, << >>, SATO >> }

BucketDocs ==
  { Doc(CompanyA, id[1], id[2], id[3], MonthCur, ZAISEKI, [baseSalary |-> v]) :
      id \in BucketIdentities, v \in { Null, Yen(2000) } }
    \cup
  { Doc(CompanyA, id[1], id[2], id[3], MonthPrev, ZAISEKI, [baseSalary |-> v]) :
      id \in BucketIdentities, v \in { Null, Yen(2500) } }

InitBuckets ==
  InitWith({ LedgerStore(docs, AliasA, Null) :
               docs \in SeqsUpTo(BucketDocs, MaxLedgerDocs) },
           { LedgerRequest(MonthCur) })

\* Unit prices: one record with or without a unit price, a base salary and
\* two allowances, under several standard working hours.
WorkingHours ==
  { Null, Num(160 * Scale), Num(100 * Scale), Num(0), Num(-8 * Scale) }

UnitPriceDocs ==
  { Doc(CompanyA, K1, No1, YAMADA, m, ZAISEKI,
        [unitPrice |-> u, baseSalary |-> b, allowance1 |-> a1, allowance6 |-> a6]) :
      m \in { MonthCur, MonthPrev }, u \in { Null, Yen(0), Yen(20) },
      b \in { Null, Yen(3200), Yen(1001) }, a1 \in { Null, Yen(500) },
      a6 \in { Null, Yen(33) } }

InitUnitPrices ==
  InitWith({ LedgerStore(<< d >>, AliasA, h) :
               d \in UnitPriceDocs, h \in WorkingHours },
           { LedgerRequest(MonthCur) })

InitLedger == InitPeriods \/ InitCompanies \/ InitBuckets \/ InitUnitPrices

SpecLedger == InitLedger /\ [][Next]_vars

(***************************************************************************)
(* The handler POST of monthly/complete (route.ts of that directory, lines *)
(* 10-185): the records of a company for a month are carried forward to    *)
(* the next month.  Several invocations run side by side, each one step at *)
(* a time: a step is the store operation the handler awaits and the code   *)
(* that runs until the next one.  In this specification the variables are  *)
(* functions of the invocation, `reads` is the log of the store operations *)
(* in the order they took effect, and a payroll document carries in        *)
(* addition whether the month was confirmed, the leave date and the events *)
(* noted on it.                                                            *)
(***************************************************************************)
MaxInvocations == 2
Invocations == 1..MaxInvocations

BATCH_LIMIT == 400

\* Number(s) of a part of the month string: a run of digits, or "" (0);
\* anything else gives NaN.
NumberOfPart(s) ==
  IF s = << >> THEN Num(0)
  ELSE IF DigitPrefix(s) = s THEN Num(DigitsVal(s)) ELSE NaN

\* getNextMonth (lines 4-8)
getNextMonth(monthStr) ==
  LET parts == Split(monthStr, "-")
      y == NumberOfPart(parts[1])
      m == IF Len(parts) >= 2 THEN NumberOfPart(parts[2]) ELSE NaN
  IN  IF ~IsNum(y) \/ ~IsNum(m)
        THEN << "N", "a", "N", "-", "N", "a", "N" >>
        ELSE IntToStr(DateYear(y.v, m.v)) \o << "-" >>
               \o PadStart2(IntToStr(DateMonth(m.v) + 1))

\* The filter of lines 42-47 and 64-67: the record is of the company.
OfRequestedCompany(data, aliasMappings, matchingNames, companyName) ==
  LET rawName == Or(data.companyShortName, data.companyName)
      displayName == DisplayName(aliasMappings, rawName)
  IN  rawName \in matchingNames \/ displayName = companyName

\* .where("month", "==", month).get() (lines 37-40 and 57-60)
WhereMonth(docs, month) ==
  LET OfMonth(d) == d.month = month IN SelectSeq(docs, OfMonth)

\* existingNextByRecordId (lines 62-70)
ExistingNextByRecordId(nextDocs, aliasMappings, matchingNames, companyName) ==
  { nextDocs[n].kintoneRecordId :
      n \in { k \in 1..Len(nextDocs) :
                /\ OfRequestedCompany(nextDocs[k], aliasMappings, matchingNames,
                                      companyName)
                /\ nextDocs[k].kintoneRecordId # << >> } }

\* x || 0 on a field of a record
OrZero(v) == IF Falsy(v) THEN Num(0) ELSE v

\* が未確認, 注意: , 未確認, 退社予定, - 日割り計算要確認
M_unconfirmed == << "U304C", "U672A", "U78BA", "U8A8D" >>
M_caution == << "U6CE8", "U610F", ":", " " >>
M_notConfirmed == << "U672A", "U78BA", "U8A8D" >>
M_leaving == << "U9000", "U793E", "U4E88", "U5B9A" >>
M_prorate ==
  << " ", "-", " ", "U65E5", "U5272", "U308A", "U8A08", "U7B97", "U8981",
     "U78BA", "U8A8D" >>

\* The alerts (lines 94-104) one record adds.
AlertsOf(prev, currentMonth, nextMonth) ==
  (IF ~prev.confirmed
     THEN << prev.name \o << ":", " " >> \o currentMonth \o M_unconfirmed >>
     ELSE << >>)
  \o (IF prev.leaveDate # << >> /\ StartsWith(prev.leaveDate, nextMonth)
        THEN << prev.name \o << ":", " " >> \o M_leaving \o << "(" >>
                  \o prev.leaveDate \o << ")" >> >>
        ELSE << >>)

\* The events (lines 92-104) noted on the record carried forward.
EventsOf(prev, currentMonth, nextMonth) ==
  (IF ~prev.confirmed
     THEN << M_caution \o currentMonth \o M_notConfirmed >> ELSE << >>)
  \o (IF prev.leaveDate # << >> /\ StartsWith(prev.leaveDate, nextMonth)
        THEN << M_leaving \o << ":", " " >> \o prev.leaveDate \o M_prorate >>
        ELSE << >>)

\* The record written for the next month (lines 107-155), as far as the
\* fields of the model go: the department and the commuting unit price are
\* not written, the bonus is 0.
NextRecord(prev, currentMonth, nextMonth) ==
  [month |-> nextMonth, kintoneRecordId |-> prev.kintoneRecordId,
   employeeNumber |-> prev.employeeNumber, name |-> prev.name,
   companyName |-> prev.companyName,
   companyShortName |-> prev.companyShortName,
   leaveDate |-> prev.leaveDate, status |-> prev.status,
   f |-> [fk \in AllFieldKeySet |->
            IF fk \in { "department", "commutingUnitPrice" } THEN Null
            ELSE IF fk = "bonus" THEN Num(0)
            ELSE IF fk \in { "baseSalary", "commutingAllowance" } THEN prev.f[fk]
            ELSE IF fk = "socialInsuranceGrade"
              THEN (IF Falsy(prev.f[fk]) THEN Str(<< >>) ELSE prev.f[fk])
            ELSE OrZero(prev.f[fk])],
   allowanceName |-> prev.allowanceName,
   confirmed |-> FALSE,
   events |-> EventsOf(prev, currentMonth, nextMonth)]

\* The loop of lines 80-165 from one commit to the next: the records of
\* `docs` are taken in order until the batch holds BATCH_LIMIT writes or no
\* record is left.  `st` holds the batch, the counters and the alerts.
RECURSIVE CarryForward(_, _, _, _, _)
CarryForward(docs, st, existing, currentMonth, nextMonth) ==
  IF docs = << >> \/ st.batchCount >= BATCH_LIMIT
    THEN [st EXCEPT !.rest = docs]
  ELSE LET prev == Head(docs)
           next ==
             IF prev.status = TAISHA THEN st
             ELSE IF prev.kintoneRecordId # << >>
                       /\ prev.kintoneRecordId \in existing
               THEN [st EXCEPT !.skipped = @ + 1]
             ELSE [st EXCEPT
                     !.alerts = @ \o AlertsOf(prev, currentMonth, nextMonth),
                     !.batch = Append(@, NextRecord(prev, currentMonth, nextMonth)),
                     !.created = @ + 1,
                     !.batchCount = @ + 1]
       IN  CarryForward(Tail(docs), next, existing, currentMonth, nextMonth)

InitialCompleteLocals ==
  [nextMonth |-> << >>, aliasMappings |-> << >>, matchingNames |-> { },
   companyDocs |-> << >>, existingNextByRecordId |-> { }, rest |-> << >>,
   batch |-> << >>, batchCount |-> 0, created |-> 0, skipped |-> 0,
   alerts |-> << >>]

\* The answers of lines 50-53 and 171-180.
NotFound == [kind |-> "notFound", status |-> 200, success |-> FALSE]
Completed(p, st) ==
  [kind |-> "completed", status |-> 200, success |-> TRUE,
   companyName |-> req[p].companyName, currentMonth |-> req[p].currentMonth,
   nextMonth |-> st.nextMonth, sourceRecords |-> Len(st.companyDocs),
   created |-> st.created, skipped |-> st.skipped, alerts |-> st.alerts]

\* The invocation answers r and ends.
CompleteAnswers(p, r) ==
  /\ response' = [response EXCEPT ![p] = r]
  /\ pc' = [pc EXCEPT ![p] = "done"]

\* A store operation of the invocation throws: the catch of lines 181-184.
CompleteFails(p, operation) ==
  /\ reads' = Append(reads, << p, operation, "failed" >>)
  /\ CompleteAnswers(p, UnexpectedFailure)
  /\ UNCHANGED << store, req, loc >>

\* Lines 12-21: the body is read and the required inputs are checked.
CompleteCheckRequired(p) ==
  /\ pc[p] = "start"
  /\ IF req[p].companyName = << >> \/ req[p].currentMonth = << >>
       THEN CompleteAnswers(p, InvalidInput) /\ UNCHANGED loc
       ELSE /\ loc' = [loc EXCEPT ![p].nextMonth = getNextMonth(req[p].currentMonth)]
            /\ pc' = [pc EXCEPT ![p] = "readAliases"]
            /\ UNCHANGED response
  /\ UNCHANGED << store, req, reads >>

\* Lines 23-34: appSettings/companyAliases is read.
CompleteReadAliases(p) ==
  /\ pc[p] = "readAliases"
  /\ \/ /\ reads' = Append(reads, << p, "appSettings", "read" >>)
        /\ loc' = [loc EXCEPT
             ![p].aliasMappings = AliasMappings(store.appSettings),
             ![p].matchingNames =
                MatchingNames(AliasMappings(store.appSettings), req[p].companyName)]
        /\ pc' = [pc EXCEPT ![p] = "readCurrent"]
        /\ UNCHANGED << store, req, response >>
     \/ CompleteFails(p, "appSettings")

\* Lines 36-54: the records of the month are read and those of the company
\* kept; without any the invocation answers that it found none.
CompleteReadCurrent(p) ==
  /\ pc[p] = "readCurrent"
  /\ \/ LET OfCompanyDoc(d) ==
              OfRequestedCompany(d, loc[p].aliasMappings, loc[p].matchingNames,
                                 req[p].companyName)
            companyDocs ==
              SelectSeq(WhereMonth(store.monthlyPayroll, req[p].currentMonth),
                        OfCompanyDoc)
        IN  /\ reads' = Append(reads, << p, "currentMonth", "read" >>)
            /\ loc' = [loc EXCEPT ![p].companyDocs = companyDocs]
            /\ IF companyDocs = << >>
                 THEN CompleteAnswers(p, NotFound)
                 ELSE pc' = [pc EXCEPT ![p] = "readNext"] /\ UNCHANGED response
            /\ UNCHANGED << store, req >>
     \/ CompleteFails(p, "currentMonth")

\* The loop goes on from the locals l until the next commit or, when nothing
\* is left to commit, until the answer of lines 171-180.
CompleteGoesOn(p, l) ==
  LET st == CarryForward(l.rest, [l EXCEPT !.batch = << >>, !.batchCount = 0],
                         l.existingNextByRecordId, req[p].currentMonth,
                         l.nextMonth)
  IN  /\ loc' = [loc EXCEPT ![p] = st]
      /\ IF st.batch # << >>
           THEN pc' = [pc EXCEPT ![p] = "commit"] /\ UNCHANGED response
           ELSE CompleteAnswers(p, Completed(p, st))

\* Lines 56-165: the records of the next month are read, the record ids the
\* company already has there are collected, and the loop starts.
CompleteReadNext(p) ==
  /\ pc[p] = "readNext"
  /\ \/ /\ reads' = Append(reads, << p, "nextMonth", "read" >>)
        /\ CompleteGoesOn(p,
             [loc[p] EXCEPT
                !.existingNextByRecordId =
                   ExistingNextByRecordId(
                     WhereMonth(store.monthlyPayroll, loc[p].nextMonth),
                     loc[p].aliasMappings, loc[p].matchingNames,
                     req[p].companyName),
                !.rest = loc[p].companyDocs])
        /\ UNCHANGED << store, req >>
     \/ CompleteFails(p, "nextMonth")

\* Lines 160-169: batch.commit() writes the records of the batch, each under
\* a new document id, all at once; then the loop goes on.
CompleteCommit(p) ==
  /\ pc[p] = "commit"
  /\ \/ /\ reads' = Append(reads, << p, "nextMonth", "commit" >>)
        /\ store' = [store EXCEPT !.monthlyPayroll = @ \o loc[p].batch]
        /\ CompleteGoesOn(p, loc[p])
        /\ UNCHANGED req
     \/ CompleteFails(p, "commit")

NextComplete ==
  \/ \E p \in Invocations : CompleteCheckRequired(p)
  \/ \E p \in Invocations : CompleteReadAliases(p)
  \/ \E p \in Invocations : CompleteReadCurrent(p)
  \/ \E p \in Invocations : CompleteReadNext(p)
  \/ \E p \in Invocations : CompleteCommit(p)

(***************************************************************************)
(* SpecComplete: invocations of monthly/complete for company A and one     *)
(* month, March or December, on stores that hold each record id at most    *)
(* once per month.                                                         *)
(***************************************************************************)
MaxCompleteDocs == 2

\* A payroll document with the fields monthly/complete reads besides.
CompleteDoc(company, kid, empno, name, month, status, confirmed, leaveDate) ==
  [companyShortName |-> company, companyName |-> company, name |-> name,
   month |-> month, kintoneRecordId |-> kid, employeeNumber |-> empno,
   status |-> status, f |-> Fields([baseSalary |-> Yen(2000), bonus |-> Yen(500)]),
   allowanceName |-> NoAllowanceNames, confirmed |-> confirmed,
   leaveDate |-> leaveDate, events |-> << >>]

\* The records of a store for the month `cur`, whose next month is `next`:
\* an employee, a retired one, one under the aliased company name who leaves
\* next month, one without record id, one of company B, and an employee
\* already carried forward.
CompleteDocs(cur, next) ==
  { CompleteDoc(CompanyA, K1, No1, YAMADA, cur, ZAISEKI, TRUE, << >>),
    CompleteDoc(CompanyA, K2, No2, SATO, cur, TAISHA, TRUE, << >>),
    CompleteDoc(CompanyARaw, K3, No3, SUZUKI, cur, ZAISEKI, FALSE,
                next \o << "-", "1", "5" >>),
    CompleteDoc(CompanyA, << >>, << >>, YAMADA_SP, cur, ZAISEKI, TRUE, << >>),
    CompleteDoc(CompanyB, K4, No3, SATO, cur, ZAISEKI, TRUE, << >>),
    CompleteDoc(CompanyA, K1, No1, YAMADA, next, ZAISEKI, FALSE, << >>) }

\* No two documents of the sequence are equal.
Distinct(docs) == \A i, j \in 1..Len(docs) : docs[i] = docs[j] => i = j

CompleteRequests(cur) ==
  { [companyName |-> CompanyA, currentMonth |-> cur],
    [companyName |-> CompanyA, currentMonth |-> << >>] }

InitComplete ==
  \E months \in { << MonthCur, YM(2025, 4) >>, << YM(2025, 12), YM(2026, 1) >> } :
    /\ store \in { Store(docs) :
                     docs \in { s \in SeqsUpTo(CompleteDocs(months[1], months[2]),
                                               MaxCompleteDocs) : Distinct(s) } }
    /\ req \in [Invocations -> CompleteRequests(months[1])]
    /\ pc = [p \in Invocations |-> "start"]
    /\ loc = [p \in Invocations |-> InitialCompleteLocals]
    /\ reads = << >>
    /\ response = [p \in Invocations |-> NoResponse]

SpecComplete == InitComplete /\ [][NextComplete]_vars

(***************************************************************************)
(* Properties                                                              *)
(***************************************************************************)
\* The spreadsheet employees the compare loop has dealt with.
Compared == 1..Len(loc.results)

\* The ledger entry the loop matched to spreadsheet employee i, if any.
WasMatched(i) == loc.matchedKeys[i] # << >>
MatchedEntry(i) ==
  loc.appEmployeeMap[CHOOSE k \in 1..Len(loc.appEmployeeMap) :
                       loc.appEmployeeMap[k].key = loc.matchedKeys[i]]

\* The three values the comparison of field `key` of employee i is about.
ExcelValueOf(i, key) == loc.excelEmployees[i].data[key]
CurrentValueOf(i, key) ==
  IF WasMatched(i) /\ MatchedEntry(i).current # NoRecord
    THEN MatchedEntry(i).current.v[key] ELSE Null
PrevValueOf(i, key) ==
  IF WasMatched(i) /\ MatchedEntry(i).prev # NoRecord
    THEN MatchedEntry(i).prev.v[key] ELSE Null

\* The check items of employee i for field `key`.
ItemsOf(i, key) ==
  { j \in 1..Len(loc.results[i].checks) : loc.results[i].checks[j].field = key }
Item(i, j) == loc.results[i].checks[j]

\* Employee i has exactly one check item for `key`, and it satisfies P.
TheItem(i, key, P(_)) ==
  /\ Cardinality(ItemsOf(i, key)) = 1
  /\ \A j \in ItemsOf(i, key) : P(Item(i, j))

ActiveKeys == FieldKeys(loc.checkFields)
NumericKeys == ActiveKeys \ STRING_FIELDS

\* The number a present value stands for.
AsNumber(v) == ToNumber(v)

\* The handler is past the people diff.
Diffed == pc \in { "respond", "done" } /\ response.kind \in { "none", "report" }

(* C1: a run of the data check never writes to the store: every step of the
   handler, whatever the outcome, leaves monthlyPayroll, companySettings and
   appSettings as they were. *)
C1_RunNeverWrites == [][Next => store' = store]_vars

C1_Witness ==
  /\ pc = "done"
  /\ response.kind = "report"
  /\ Len(reads) = 3
  /\ Len(store.monthlyPayroll) > 0
  /\ Len(response.results) > 0

(* C2: for every matched employee and numeric active field with both the
   spreadsheet value and the ledger's current value present, values that
   differ as numbers give the single check item of the field the status
   mismatch and a message stating both values, whatever the previous value. *)
C2_NumericMismatch ==
  \A i \in Compared : \A key \in NumericKeys :
    LET ex == ExcelValueOf(i, key)
        app == CurrentValueOf(i, key)
        States(c) ==
          /\ c.status = "mismatch"
          /\ Includes(c.message, fmtNum(AsNumber(ex)))
          /\ Includes(c.message, fmtNum(AsNumber(app)))
          /\ c.message =
               MismatchMessage(fmtNum(AsNumber(ex)), fmtNum(AsNumber(app)))
    IN  (~IsNull(ex) /\ ~IsNull(app) /\ AsNumber(ex) # AsNumber(app))
          => TheItem(i, key, States)

C2_Witness ==
  \E i \in Compared : \E j \in 1..Len(loc.results[i].checks) :
    /\ Item(i, j).field = "baseSalary"
    /\ Item(i, j).status = "mismatch"
    /\ Item(i, j).prevMonthValue = Yen(2500)
    /\ Item(i, j).excelValue = Yen(2500)
    /\ Item(i, j).appValue = Yen(2000)

\* The spreadsheet value of a field equals the ledger's current value: as
\* numbers for a numeric field, as strings for a text field.
ValuesEqual(key, ex, app) ==
  IF key \in STRING_FIELDS THEN JsString(ex) = JsString(app)
  ELSE AsNumber(ex) = AsNumber(app)

(* C3: for every active field whose spreadsheet value equals the ledger's
   current value (both present), when the matched ledger employee has no
   previous-period value for the field, the field's check item has the
   status ok. *)
C3_EqualWithoutPrevIsOk ==
  \A i \in Compared : \A key \in ActiveKeys :
    LET ex == ExcelValueOf(i, key)
        app == CurrentValueOf(i, key)
        IsOk(c) == c.status = "ok" /\ c.message = M_match
    IN  (/\ ~IsNull(ex) /\ ~IsNull(app)
         /\ ValuesEqual(key, ex, app)
         /\ IsNull(PrevValueOf(i, key)))
          => TheItem(i, key, IsOk)

C3_Witness ==
  /\ \E i \in Compared : \E j \in 1..Len(loc.results[i].checks) :
       /\ Item(i, j).field = "socialInsuranceGrade"
       /\ Item(i, j).status = "ok"
       /\ Item(i, j).excelValue = Str(Grade20)
       /\ Item(i, j).appValue = Yen(20)
       /\ IsNull(Item(i, j).prevMonthValue)

\* (n > 0 ? "+" : "") + fmtNum(n)
Signed(n) == (IF n > 0 THEN << "+" >> ELSE << >>) \o fmtNum(n)

(* C4: a check item has the status changed exactly when the field is
   numeric, the spreadsheet value equals the ledger's current value, and a
   previous-period value exists that is greater than zero and differs from
   the current value; the message then carries the previous value, the new
   value and the signed difference new minus previous. *)
C4_ChangedExactly ==
  \A i \in Compared : \A key \in ActiveKeys :
    LET ex == ExcelValueOf(i, key)
        app == CurrentValueOf(i, key)
        prev == PrevValueOf(i, key)
        case == /\ key \notin STRING_FIELDS
                /\ ~IsNull(ex) /\ ~IsNull(app) /\ AsNumber(ex) = AsNumber(app)
                /\ ~IsNull(prev)
                /\ AsNumber(prev) > 0 /\ AsNumber(prev) # AsNumber(app)
        Carries(c) ==
          /\ c.status = "changed"
          /\ Includes(c.message,
                      fmtNum(AsNumber(prev)) \o M_arrow \o fmtNum(AsNumber(ex)))
          /\ Includes(c.message,
                      M_diff \o Signed(AsNumber(ex) - AsNumber(prev)) \o M_close)
    IN  /\ case => TheItem(i, key, Carries)
        /\ ~case => \A j \in ItemsOf(i, key) : Item(i, j).status # "changed"

C4_Witness ==
  \E i \in Compared : \E j \in 1..Len(loc.results[i].checks) :
    /\ Item(i, j).status = "changed"
    /\ Item(i, j).excelValue = Yen(2000)
    /\ Item(i, j).prevMonthValue = Yen(2500)

\* d is a ledger record of the requested company and of one of the two
\* periods, as the snapshot loop selects it.
IsLedgerRecord(d) ==
  RecordSelected(d, loc.aliasMappings, loc.matchingNames, req.companyName,
                 req.month, MonthPrev)

\* Document n of the snapshot is the only current-period record of its
\* identity.
OnlyCurrentRecord(n) ==
  \A m \in 1..Len(loc.snapshot) :
    (/\ m # n
     /\ IsLedgerRecord(loc.snapshot[m])
     /\ IdentityKey(loc.snapshot[m]) = IdentityKey(loc.snapshot[n]))
      => loc.snapshot[m].month # req.month

(* C5: a ledger employee whose current-period record carries the status
   retired is never listed in missingFromSpreadsheet, whatever the status of
   its previous-period record and the order of the records. *)
C5_RetiredNeverMissing ==
  Diffed =>
    \A n \in 1..Len(loc.snapshot) :
      LET d == loc.snapshot[n]
      IN  (/\ IsLedgerRecord(d)
           /\ d.month = req.month
           /\ d.status = TAISHA
           /\ OnlyCurrentRecord(n))
            => \A j \in 1..Len(loc.missingEntries) :
                 loc.missingEntries[j].key # IdentityKey(d)

\* Some spreadsheet employee was matched to the identity `key`.
MatchedByARow(key) ==
  \E i \in 1..Len(loc.matchedKeys) : loc.matchedKeys[i] = key

\* The identity is active, has a current-period record and was not matched.
ShouldBeMissing(e) ==
  e.status # TAISHA /\ e.current # NoRecord /\ ~MatchedByARow(e.key)

(* C6, as claimed: missingFromSpreadsheet contains the name of a ledger
   identity if and only if the identity is active, has a current-period
   record and was matched by no spreadsheet employee. *)
C6_NameListedIffUnmatched ==
  Diffed =>
    \A k \in 1..Len(loc.appEmployeeMap) :
      (\E j \in 1..Len(loc.missing) : loc.missing[j] = loc.appEmployeeMap[k].name)
        <=> ShouldBeMissing(loc.appEmployeeMap[k])

\* The position of the identity `key` in the ledger map.
PositionOf(key) ==
  CHOOSE k \in 1..Len(loc.appEmployeeMap) : loc.appEmployeeMap[k].key = key

(* C6, amended: missingFromSpreadsheet holds one entry, the identity's name,
   for each ledger identity that is active (collected status not retired),
   has a current-period record and was matched by no spreadsheet employee,
   in ledger order, and no entry for any other identity. *)
C6_OneEntryPerUnmatchedIdentity ==
  Diffed =>
    /\ \A k \in 1..Len(loc.appEmployeeMap) :
         (\E j \in 1..Len(loc.missingEntries) :
            loc.missingEntries[j].key = loc.appEmployeeMap[k].key)
           <=> ShouldBeMissing(loc.appEmployeeMap[k])
    /\ \A j1, j2 \in 1..Len(loc.missingEntries) :
         j1 < j2 => PositionOf(loc.missingEntries[j1].key)
                      < PositionOf(loc.missingEntries[j2].key)
    /\ Len(loc.missing) = Len(loc.missingEntries)
    /\ \A j \in 1..Len(loc.missing) :
         loc.missing[j] =
           loc.appEmployeeMap[PositionOf(loc.missingEntries[j].key)].name
    /\ response.kind = "report" => response.missing = loc.missing

C6_Witness ==
  /\ pc = "done" /\ response.kind = "report"
  /\ Len(response.missing) = 1
  /\ \E k \in 1..Len(loc.appEmployeeMap) :
       /\ MatchedByARow(loc.appEmployeeMap[k].key)
       /\ loc.appEmployeeMap[k].name = response.missing[1]

(* C7, as claimed: the name of a spreadsheet employee is listed in
   newInSpreadsheet if and only if the matching pass found no ledger
   identity for that employee. *)
C7_NameListedIffNoMatch ==
  Diffed =>
    \A i \in 1..Len(loc.excelEmployees) :
      (\E j \in 1..Len(loc.newInExcel) :
         loc.newInExcel[j] = loc.excelEmployees[i].name)
        <=> ~WasMatched(i)

(* C7, amended: newInSpreadsheet is the list, without repetition, of the
   names of the spreadsheet employees for which the matching pass found no
   ledger identity; the name of a matched employee is listed only when an
   unmatched spreadsheet employee carries the same name. *)
C7_NamesOfUnmatched ==
  Diffed =>
    /\ { loc.newInExcel[j] : j \in 1..Len(loc.newInExcel) }
         = { loc.excelEmployees[i].name :
               i \in { n \in 1..Len(loc.excelEmployees) : ~WasMatched(n) } }
    /\ \A j1, j2 \in 1..Len(loc.newInExcel) :
         loc.newInExcel[j1] = loc.newInExcel[j2] => j1 = j2
    /\ response.kind = "report" => response.newInExcel = loc.newInExcel

C7_Witness ==
  /\ pc = "done" /\ response.kind = "report"
  /\ Len(response.newInExcel) = 1
  /\ \E i \in 1..Len(loc.excelEmployees) :
       WasMatched(i) /\ loc.excelEmployees[i].name = response.newInExcel[1]
  /\ \E i \in 1..Len(loc.excelEmployees) :
       ~WasMatched(i) /\ loc.excelEmployees[i].name = response.newInExcel[1]

\* The characters of a name that are not white space.
Letters(name) == LET IsLetter(c) == c \notin WhiteSpace IN SelectSeq(name, IsLetter)

\* The ledger entries that carry the employee number of spreadsheet employee
\* i, and those whose name has the same letters.
SameNumberAs(i) ==
  { k \in 1..Len(loc.appEmployeeMap) :
      /\ loc.excelEmployees[i].employeeNumber # << >>
      /\ loc.appEmployeeMap[k].employeeNumber = loc.excelEmployees[i].employeeNumber }
SameNameAs(i) ==
  { k \in 1..Len(loc.appEmployeeMap) :
      Letters(loc.appEmployeeMap[k].name) = Letters(loc.excelEmployees[i].name) }
Lowest(S) == CHOOSE k \in S : \A m \in S : k <= m

(* C8: matching is two-tier with the employee number first: a spreadsheet
   employee whose non-empty number is carried by some ledger entry is matched
   to the first such entry in ledger order, even when another entry has the
   same normalized name; otherwise to the first entry with the same
   normalized name; otherwise to none. *)
C8_NumberThenName ==
  \A i \in Compared :
    IF SameNumberAs(i) # { }
      THEN /\ loc.matchedKeys[i] = loc.appEmployeeMap[Lowest(SameNumberAs(i))].key
           /\ loc.results[i].employeeNumber = loc.excelEmployees[i].employeeNumber
    ELSE IF SameNameAs(i) # { }
      THEN loc.matchedKeys[i] = loc.appEmployeeMap[Lowest(SameNameAs(i))].key
    ELSE ~WasMatched(i) /\ loc.results[i].employeeNumber = << >>

C8_Witness ==
  \E i \in Compared :
    /\ SameNumberAs(i) = { 2 }
    /\ 1 \in SameNameAs(i)
    /\ loc.matchedKeys[i] = loc.appEmployeeMap[2].key

\* Two names differ only in the number, kind or position of their white
\* space characters.
RECURSIVE WsEquiv(_, _)
WsEquiv(s, t) ==
  IF s # << >> /\ Head(s) \in WhiteSpace THEN WsEquiv(Tail(s), t)
  ELSE IF t # << >> /\ Head(t) \in WhiteSpace THEN WsEquiv(s, Tail(t))
  ELSE IF s = << >> \/ t = << >> THEN s = << >> /\ t = << >>
  ELSE Head(s) = Head(t) /\ WsEquiv(Tail(s), Tail(t))

\* The names the run meets: those of the ledger documents and the strings of
\* the spreadsheet's cells.
LedgerNames ==
  { store.monthlyPayroll[n].name : n \in 1..Len(store.monthlyPayroll) }
CellStrings ==
  UNION { { req.file.rows[r][c].v :
              c \in { x \in 1..Len(req.file.rows[r]) : IsStr(req.file.rows[r][x]) } } :
          r \in 1..Len(req.file.rows) }

(* C9: name normalization removes every white space character, ordinary or
   ideographic: two names that differ only in their white space normalize to
   the same string, and a spreadsheet employee reaching the name fallback is
   matched to a ledger entry whenever one differs from it only in white
   space; normalization is idempotent. *)
C9_WhitespaceVariants ==
  /\ \A a \in LedgerNames \cup CellStrings :
       /\ normalizeName(normalizeName(a)) = normalizeName(a)
       /\ \A b \in CellStrings :
            WsEquiv(a, b) => normalizeName(a) = normalizeName(b)
  /\ \A i \in Compared :
       (/\ SameNumberAs(i) = { }
        /\ \E k \in 1..Len(loc.appEmployeeMap) :
             WsEquiv(loc.appEmployeeMap[k].name, loc.excelEmployees[i].name))
         => /\ WasMatched(i)
            /\ WsEquiv(MatchedEntry(i).name, loc.excelEmployees[i].name)

C9_Witness ==
  \E i \in Compared :
    /\ WasMatched(i)
    /\ loc.excelEmployees[i].name = << "U5C71", "U3000", "U7530" >>
    /\ MatchedEntry(i).name = << "U5C71", "U7530" >>

\* The handler is past the column resolution.
ColumnsResolved ==
  \/ pc \in { "extract", "compare", "respond" }
  \/ pc = "done" /\ response.kind \in { "report", "MissingRequiredColumn" }

\* No step of the chain finds a column for the name: not the saved hint, not
\* the default label, not one of the aliases.
NameUnresolved ==
  \A target \in { loc.savedMapping["name"], L_name, A_juugyouinmei,
                  A_shainmei, A_namae } :
    findCol(loc.headerCells, target) = NoCol

(* C11: when neither the saved hint, the default label nor an alias resolves
   a column for the name field, the run ends with MissingRequiredColumn and
   without a report: no spreadsheet employee is extracted, and no result,
   missing list or new list is produced. *)
C11_NoNameColumnNoReport ==
  (ColumnsResolved /\ NameUnresolved)
    => /\ pc = "done"
       /\ response = MissingRequiredColumn
       /\ loc.excelEmployees = << >>
       /\ loc.results = << >>
       /\ loc.missing = << >>
       /\ loc.newInExcel = << >>

C11_Witness ==
  /\ pc = "done"
  /\ response = MissingRequiredColumn
  /\ NameUnresolved
  /\ loc.savedMapping["name"] = A_shainmei
  /\ Len(loc.allRows) >= 3

\* The request lacks a required input, or its sheet has fewer than 2 rows.
InvalidRequest ==
  \/ ~req.file.present
  \/ req.companyName = << >>
  \/ req.month = << >>
  \/ ~req.file.corrupt /\ Len(req.file.rows) < 2

(* C12: when the file, the company name or the period is missing, or the cell
   matrix has fewer than 2 rows, the run ends with InvalidInput, and no store
   read (alias table, company settings, payroll records) is issued at any
   point of that run. *)
C12_InvalidInputBeforeReads ==
  /\ [](InvalidRequest => reads = << >>)
  /\ InvalidRequest ~> (pc = "done" /\ response = InvalidInput /\ reads = << >>)

C12_Witness ==
  /\ pc = "done"
  /\ response = InvalidInput
  /\ req.file.present /\ req.companyName # << >> /\ req.month # << >>
  /\ Len(req.file.rows) = 1

\* The ledger entry spreadsheet employee i resolves to when it is looked at
\* alone: the first with its number, else the first with its name; 0 if none.
Target(i) ==
  IF SameNumberAs(i) # { } THEN Lowest(SameNumberAs(i))
  ELSE IF SameNameAs(i) # { } THEN Lowest(SameNameAs(i))
  ELSE 0

\* Every check item of result i reports the values of ledger entry k.
ComparedAgainst(i, k) ==
  /\ loc.results[i].employeeNumber = loc.appEmployeeMap[k].employeeNumber
  /\ \A j \in 1..Len(loc.results[i].checks) :
       LET item == Item(i, j)
       IN  /\ item.appValue =
                (IF loc.appEmployeeMap[k].current = NoRecord THEN Null
                 ELSE loc.appEmployeeMap[k].current.v[item.field])
           /\ item.prevMonthValue =
                (IF loc.appEmployeeMap[k].prev = NoRecord THEN Null
                 ELSE loc.appEmployeeMap[k].prev.v[item.field])

(* C13: the results list holds exactly one Employee Result per extracted
   spreadsheet employee, in spreadsheet order; two spreadsheet rows that
   resolve to the same ledger identity both get a result compared against
   that identity: an identity already matched is not excluded from later
   matches. *)
C13_OneResultPerEmployee ==
  /\ Len(loc.results) = loc.i /\ loc.i <= Len(loc.excelEmployees)
  /\ Diffed => Len(loc.results) = Len(loc.excelEmployees)
  /\ (pc = "done" /\ response.kind = "report") => response.results = loc.results
  /\ \A i \in Compared :
       /\ loc.results[i].name = loc.excelEmployees[i].name
       /\ Target(i) # 0 => ComparedAgainst(i, Target(i))
       /\ \A j \in Compared :
            (Target(i) # 0 /\ Target(j) = Target(i))
              => /\ loc.matchedKeys[j] = loc.appEmployeeMap[Target(i)].key
                 /\ ComparedAgainst(j, Target(i))

C13_Witness ==
  /\ pc = "done" /\ response.kind = "report"
  /\ Len(response.results) = 2
  /\ loc.matchedKeys[1] # << >>
  /\ loc.matchedKeys[1] = loc.matchedKeys[2]
  /\ \E j \in ItemsOf(1, "baseSalary") :
       Item(1, j).status = "ok" /\ Item(1, j).appValue = Yen(2000)
  /\ \E j \in ItemsOf(2, "baseSalary") :
       Item(2, j).status = "mismatch" /\ Item(2, j).appValue = Yen(2000)

\* The active field set has been built.
FieldsBuilt == loc.checkFields # << >>

\* The nine base fields come first, in their order.
BaseFieldsFirst ==
  /\ Len(loc.checkFields) >= 9
  /\ [n \in 1..9 |-> loc.checkFields[n].key]
       = << "department", "baseSalary", "commutingAllowance",
            "commutingUnitPrice", "deemedOvertimePay", "residentTax",
            "unitPrice", "socialInsuranceGrade", "bonus" >>
  /\ \A n \in 10..Len(loc.checkFields) :
       loc.checkFields[n].key \in { AllowanceKey(i) : i \in 1..6 }

\* The settings sent with the request, or the saved hints, name allowance i.
NamedBySettings(i) == loc.settingsAllowanceNames[i] # << >>
HintedAt(i) == Trim(loc.savedMapping[AllowanceKey(i)]) # << >>

\* A current-period ledger record of the company carries a name for
\* allowance i.
NamedByLedger(i) ==
  \E n \in 1..Len(store.monthlyPayroll) :
    /\ IsLedgerRecord(store.monthlyPayroll[n])
    /\ store.monthlyPayroll[n].month = req.month
    /\ Trim(store.monthlyPayroll[n].allowanceName[i]) # << >>

(* C14, as claimed: the active field set always contains the nine base
   fields, and contains allowance field i (i in 1..6) if and only if the
   company settings configure a name for it or a non-blank saved column hint
   exists for it. *)
C14_AllowanceIffSettingsOrHint ==
  FieldsBuilt =>
    /\ BaseFieldsFirst
    /\ \A i \in 1..6 :
         AllowanceKey(i) \in ActiveKeys <=> (NamedBySettings(i) \/ HintedAt(i))

(* C14, amended: the active field set always contains the nine base fields,
   and contains allowance field i (i in 1..6), once, if and only if the
   company settings sent with the request give it a non-empty name, or a
   current-period ledger record of the company carries a non-blank name for
   it, or a non-blank saved column hint exists for it. *)
C14_AllowanceIffNamedOrHinted ==
  FieldsBuilt =>
    /\ BaseFieldsFirst
    /\ \A i \in 1..6 :
         /\ AllowanceKey(i) \in ActiveKeys
              <=> (NamedBySettings(i) \/ NamedByLedger(i) \/ HintedAt(i))
         /\ Cardinality({ n \in 1..Len(loc.checkFields) :
                            loc.checkFields[n].key = AllowanceKey(i) }) <= 1

C14_Witness ==
  /\ pc = "done" /\ response.kind = "report"
  /\ ~NamedBySettings(1) /\ ~HintedAt(1) /\ NamedByLedger(1)
  /\ "allowance1" \in ActiveKeys
  /\ "allowance2" \notin ActiveKeys
  /\ \E j \in ItemsOf(1, "allowance1") : Item(1, j).status = "ok"

\* The string t occurs in the string s.
Occurs(t, s) ==
  \E n \in 0..(Len(s) - Len(t)) : SubSeq(s, n + 1, n + Len(t)) = t

\* The header of column c (0-based) answers the target: it is not empty and
\* equals the trimmed target, contains it or is contained in it.
Answers(c, target) ==
  LET h == loc.headerCells[c + 1]
      t == Trim(target)
  IN  h # << >> /\ t # << >> /\ (h = t \/ Occurs(t, h) \/ Occurs(h, t))

\* The lowest column that answers the target, NoCol when none does.
ColumnFor(target) ==
  LET cols == { c \in 0..(Len(loc.headerCells) - 1) : Answers(c, target) }
  IN  IF cols = { } THEN NoCol ELSE CHOOSE c \in cols : \A d \in cols : c <= d

\* The label of an active field.
LabelOf(key) ==
  loc.checkFields[CHOOSE n \in 1..Len(loc.checkFields) :
                    loc.checkFields[n].key = key].label

\* The targets tried for a key, in order: the saved hint, the default label
\* and, for the name and the employee number, the aliases.
TargetsOf(key) ==
  IF key = "name"
    THEN << loc.savedMapping[key], L_name,
            L_name, A_juugyouinmei, A_shainmei, A_namae >>
  ELSE IF key = "employeeNumber"
    THEN << loc.savedMapping[key], L_employeeNumber,
            L_employeeNumber, A_juugyouinbangou, A_shainNo, A_NoDot >>
  ELSE << loc.savedMapping[key], LabelOf(key) >>

\* The column of the first target that has one.
ChainColumn(key) ==
  LET hits == { n \in 1..Len(TargetsOf(key)) : ColumnFor(TargetsOf(key)[n]) # NoCol }
  IN  IF hits = { } THEN NoCol
      ELSE ColumnFor(TargetsOf(key)[CHOOSE n \in hits : \A m \in hits : n <= m])

(* C15: each field's column is resolved by a priority chain in which the
   first success wins: the saved hint, then the default label, then (name and
   employee number only) the aliases; each step selects the lowest column
   whose non-empty header equals the target, contains it or is contained in
   it; a column with an empty header is never selected, and a hint that
   matches a column overrides the column of the default label. *)
C15_PriorityChain ==
  ColumnsResolved =>
    /\ DOMAIN loc.mapping = { "name", "employeeNumber" } \cup ActiveKeys
    /\ \A key \in DOMAIN loc.mapping :
         /\ loc.mapping[key] = ChainColumn(key)
         /\ loc.mapping[key] # NoCol => loc.headerCells[loc.mapping[key] + 1] # << >>
         /\ ColumnFor(loc.savedMapping[key]) # NoCol
              => loc.mapping[key] = ColumnFor(loc.savedMapping[key])

C15_Witness ==
  /\ pc = "done" /\ response.kind = "report"
  /\ loc.savedMapping["name"] = A_shainmei
  /\ loc.mapping["name"] = 0
  /\ ColumnFor(L_name) = 1
  /\ response.mapping["name"] = 0

C15_WitnessContained ==
  /\ pc = "done" /\ response.kind = "report"
  /\ loc.savedMapping["name"] = SHIMEIRAN
  /\ loc.mapping["name"] = 1
  /\ loc.headerCells[2] = L_name
  /\ loc.headerCells[1] = << >>

\* The position of a field in the active field set.
FieldPosition(key) ==
  CHOOSE n \in 1..Len(loc.checkFields) : loc.checkFields[n].key = key

\* A ledger value that is zero or the empty string.
ZeroOrEmpty(v) == v = Num(0) \/ v = Str(<< >>)

(* C16: for each spreadsheet employee and each active field at most one check
   item is produced, in active-field order: none when the spreadsheet value
   is absent and the ledger current value is absent, zero or empty; no_data
   "not present in spreadsheet" when the spreadsheet value is absent and the
   ledger value is present and non-zero, non-empty; no_data "not present in
   ledger" when the spreadsheet value is present and there is no matched
   ledger employee or no ledger current value; a value comparison happens
   only when none of these cases applies. *)
C16_NoDataRules ==
  \A i \in Compared :
    /\ \A j1, j2 \in 1..Len(loc.results[i].checks) :
         j1 < j2 => FieldPosition(Item(i, j1).field) < FieldPosition(Item(i, j2).field)
    /\ \A j \in 1..Len(loc.results[i].checks) : Item(i, j).field \in ActiveKeys
    /\ \A key \in ActiveKeys :
         LET x == ExcelValueOf(i, key)
             a == CurrentValueOf(i, key)
             NotInSheet(item) ==
               /\ item.status = "no_data" /\ item.message = M_noExcel
               /\ item.excelValue = Null /\ item.appValue = a
             NotInLedger(item) ==
               /\ item.status = "no_data" /\ item.message = M_noApp
               /\ item.excelValue = x /\ item.appValue = Null
             IsComparison(item) ==
               /\ item.status \in { "ok", "mismatch", "changed" }
               /\ item.excelValue = x /\ item.appValue = a
         IN  IF IsNull(x) /\ (IsNull(a) \/ ZeroOrEmpty(a))
               THEN ItemsOf(i, key) = { }
             ELSE IF IsNull(x) THEN TheItem(i, key, NotInSheet)
             ELSE IF IsNull(a) THEN TheItem(i, key, NotInLedger)
             ELSE TheItem(i, key, IsComparison)

C16_Witness ==
  \E i \in Compared :
    /\ WasMatched(i)
    /\ ExcelValueOf(i, "baseSalary") = Null
    /\ CurrentValueOf(i, "baseSalary") = Yen(2500)
    /\ PrevValueOf(i, "baseSalary") = Yen(2000)
    /\ \E j \in ItemsOf(i, "baseSalary") :
         Item(i, j).status = "no_data" /\ Item(i, j).message = M_noExcel

\* The string form of a present value.
StringForm(v) == IF IsStr(v) THEN v.v ELSE JsString(v)

(* C17: for the department field with both values present, the status is ok
   if and only if, after trimming, the two strings are equal or one contains
   the other, and mismatch otherwise; it is never changed, whatever the
   previous period's department. *)
C17_DepartmentOverlap ==
  \A i \in Compared :
    LET x == ExcelValueOf(i, "department")
        a == CurrentValueOf(i, "department")
        xs == Trim(StringForm(x))
        as == Trim(StringForm(a))
        overlap == xs = as \/ Occurs(xs, as) \/ Occurs(as, xs)
        Right(item) == item.status = (IF overlap THEN "ok" ELSE "mismatch")
    IN  (~IsNull(x) /\ ~IsNull(a)) => TheItem(i, "department", Right)

C17_Witness ==
  \E i \in Compared :
    /\ ExcelValueOf(i, "department") = Str(EIGYO)
    /\ CurrentValueOf(i, "department") = Str(EIGYO1 \o << " " >>)
    /\ PrevValueOf(i, "department") = Str(SOUMU)
    /\ \E j \in ItemsOf(i, "department") : Item(i, j).status = "ok"

(* C18: for a text field other than the department (the social-insurance
   grade) with both values present, the status is ok exactly when the string
   forms of the spreadsheet value and of the ledger value are equal, and
   mismatch otherwise; a difference from the previous period never makes it
   changed. *)
C18_TextExactEquality ==
  \A i \in Compared :
    \A key \in (STRING_FIELDS \ { "department" }) \cap ActiveKeys :
      LET x == ExcelValueOf(i, key)
          a == CurrentValueOf(i, key)
          Right(item) ==
            item.status = (IF StringForm(x) = StringForm(a) THEN "ok"
                           ELSE "mismatch")
      IN  (~IsNull(x) /\ ~IsNull(a)) => TheItem(i, key, Right)

C18_Witness ==
  \E i \in Compared :
    /\ ExcelValueOf(i, "socialInsuranceGrade") = Str(Grade21)
    /\ CurrentValueOf(i, "socialInsuranceGrade") = Str(Grade21)
    /\ PrevValueOf(i, "socialInsuranceGrade") = Str(Grade20)
    /\ \E j \in ItemsOf(i, "socialInsuranceGrade") : Item(i, j).status = "ok"

\* What row r (1-based) of the sheet adds to the header of column c
\* (0-based): the trimmed string form of its cell, nothing for an empty cell
\* or a row that is not there.
HeaderPart(r, c) ==
  IF r <= Len(req.file.rows) /\ c < Len(req.file.rows[r])
       /\ ~IsNull(req.file.rows[r][c + 1])
    THEN Trim(StringForm(req.file.rows[r][c + 1]))
    ELSE << >>

\* The widest of the first three rows.
BlockWidth ==
  LET widths == { Len(req.file.rows[r]) : r \in 1..3 \cap 1..Len(req.file.rows) }
  IN  CHOOSE w \in widths : \A v \in widths : v <= w

(* C19: the searchable header of column c is the concatenation, in row order
   and without separator, of the trimmed string forms of the cells of column
   c in the first min(3, rowCount) rows, empty cells adding nothing; a label
   split over two header rows is one string, and in a sheet of fewer than 4
   rows the data rows inside the block are part of the header too. *)
C19_HeaderConcatenation ==
  ColumnsResolved =>
    /\ Len(loc.headerCells) = BlockWidth
    /\ \A c \in 0..(BlockWidth - 1) :
         loc.headerCells[c + 1]
           = HeaderPart(1, c) \o HeaderPart(2, c) \o HeaderPart(3, c)

C19_Witness ==
  /\ pc = "done" /\ response.kind = "report"
  /\ req.file.rows[1][1] = Str(SHI)
  /\ req.file.rows[2][1] = Str(MEI_SP)
  /\ req.file.rows[3][1] = Null
  /\ loc.headerCells[1] = L_name
  /\ response.mapping["name"] = 0

\* A sheet of three rows: the two data rows are part of the header strings.
C19_WitnessShortSheet ==
  /\ pc = "done" /\ response.kind = "report"
  /\ Len(req.file.rows) = 3
  /\ loc.headerCells[1] = L_name \o YAMADA \o YAMADA_SP

\* The handler is past the extraction.
Extracted ==
  \/ pc \in { "compare", "respond" }
  \/ pc = "done" /\ response.kind = "report"

\* The name cell of row r (0-based) of the sheet.
NameCell(r) ==
  IF loc.mapping["name"] < Len(req.file.rows[r + 1])
    THEN req.file.rows[r + 1][loc.mapping["name"] + 1] ELSE Null

\* A header word: one of the generic words for a name column, or a string
\* that contains 氏名.
HeaderWord(s) ==
  s \in { L_name, A_juugyouinmei, A_shainmei, A_namae } \/ Occurs(L_name, s)

\* Row r looks like real data: its name cell is there, not blank and not a
\* header word.
RealData(r) ==
  /\ ~IsNull(NameCell(r))
  /\ Trim(StringForm(NameCell(r))) # << >>
  /\ ~HeaderWord(Trim(StringForm(NameCell(r))))

\* The first of the rows 0..4 that looks like real data; the end of that
\* range when none does.
FirstDataRow ==
  LET scanned == 0..(Min(5, Len(req.file.rows)) - 1)
      real == { r \in scanned : RealData(r) }
  IN  IF real = { } THEN Min(5, Len(req.file.rows))
      ELSE CHOOSE r \in real : \A q \in real : r <= q

\* Row r (0-based) is emitted as a spreadsheet employee.
Emitted(r) ==
  /\ r >= 1 /\ r >= FirstDataRow
  /\ IsStr(NameCell(r)) /\ Trim(NameCell(r).v) # << >>

\* The rows emitted, in sheet order.
EmittedRows ==
  SelectSeq([n \in 1..Len(req.file.rows) |-> n - 1], Emitted)

(* C20: the header row count is at least 1 and at most 5: row 0 is never
   emitted as an employee; the rows among the first five whose name cell is
   empty or header-like (a generic name-header word, or a string containing
   氏名) before the first real data row are not emitted; every later row whose
   name cell is a non-empty string yields exactly one spreadsheet employee,
   in sheet order, and the rows with an empty or missing name are skipped. *)
C20_HeaderRowsThenEmployees ==
  Extracted =>
    /\ headerRowCount(loc.allRows, loc.mapping["name"]) \in 1..5
    /\ Len(loc.excelEmployees) = Len(EmittedRows)
    /\ \A n \in 1..Len(EmittedRows) :
         loc.excelEmployees[n].name = Trim(NameCell(EmittedRows[n]).v)

C20_Witness ==
  /\ pc = "done" /\ response.kind = "report"
  /\ Len(req.file.rows) = 6
  /\ \A r \in 0..4 : ~RealData(r)
  /\ NameCell(3) = Null
  /\ NameCell(5) = Str(SHIMEIRAN)
  /\ Len(response.results) = 1
  /\ response.results[1].name = SHIMEIRAN

\* The name column was resolved: the run is past the resolution of columns.
NameResolved == "name" \in DOMAIN loc.mapping /\ loc.mapping["name"] # NoCol

\* The cell of sheet row r (0-based) the mapping gives field `key`, null when
\* the field has no column or the row is too short.
MappedCell(r, key) ==
  LET row == req.file.rows[r + 1]
      col == loc.mapping[key]
  IN  IF col = NoCol \/ col >= Len(row) THEN Null ELSE row[col + 1]

\* A string no number can be read from: after leading white space it does
\* not start with a digit, a sign or a point.
Unparseable(s) ==
  \/ TrimStart(s) = << >>
  \/ /\ \A n \in 1..Len(Digits) : Head(TrimStart(s)) # Digits[n]
     /\ Head(TrimStart(s)) \notin { "-", "+", "." }

\* A non-empty string of digits.
AllDigits(s) == s # << >> /\ DigitPrefix(s) = s

(* C21: cell-level problems never abort a run.  Once the name column is
   resolved the run produces no error and goes on until it answers with the
   report.  For every spreadsheet employee and every active field: a field
   without a column, or whose mapped cell is empty, is null; a text field is
   the trimmed string form of its cell; a numeric field is always a number,
   the cell itself when it is a number, the number written when the cell is
   a string of digits, and 0 when no number can be read from the cell. *)
C21_CellsDegrade ==
  /\ NameResolved =>
       /\ response.kind \in { "none", "report" }
       /\ pc = "done" => response.kind = "report"
  /\ Extracted =>
       /\ Len(loc.excelEmployees) = Len(EmittedRows)
       /\ \A n \in 1..Len(loc.excelEmployees) : \A key \in ActiveKeys :
            LET cell == MappedCell(EmittedRows[n], key)
                value == loc.excelEmployees[n].data[key]
            IN  IF IsNull(cell) THEN value = Null
                ELSE IF key \in STRING_FIELDS
                  THEN value = Str(Trim(StringForm(cell)))
                  ELSE /\ IsNum(value)
                       /\ IsNum(cell) => value = cell
                       /\ IsStr(cell) /\ Unparseable(cell.v) => value = Num(0)
                       /\ IsStr(cell) /\ AllDigits(cell.v)
                            => value = Num(DigitsVal(cell.v) * Scale)

\* A run answered with the report although a numeric cell held text that is
\* no number: the value extracted for it is 0.
C21_Witness ==
  /\ pc = "done" /\ response.kind = "report"
  /\ \E n \in 1..Len(loc.excelEmployees) : \E key \in NumericKeys :
       LET cell == MappedCell(EmittedRows[n], key)
       IN  /\ IsStr(cell) /\ Unparseable(cell.v)
           /\ loc.excelEmployees[n].data[key] = Num(0)

\* The ledger snapshot of the run is built.
SnapshotBuilt ==
  \/ pc \in { "fields", "columns", "extract", "compare", "respond" }
  \/ pc = "done" /\ response.kind \in { "report", "MissingRequiredColumn" }

\* The documents of the payroll collection.
LedgerDocs == { store.monthlyPayroll[n] : n \in 1..Len(store.monthlyPayroll) }

\* The raw company name of a record: its short name, else its company name.
RawCompany(d) ==
  IF d.companyShortName # << >> THEN d.companyShortName ELSE d.companyName

\* The record is of the requested company: its raw company name is the
\* requested display name, or the alias table maps it to that name.
OfCompany(d) ==
  \/ RawCompany(d) = req.companyName
  \/ /\ store.appSettings.exists
     /\ \E j \in 1..Len(store.appSettings.mappings) :
          store.appSettings.mappings[j] = << RawCompany(d), req.companyName >>

\* The identity key of a record: its record id, else its employee number,
\* else its name.
KeyOf(d) ==
  IF d.kintoneRecordId # << >> THEN d.kintoneRecordId
  ELSE IF d.employeeNumber # << >> THEN d.employeeNumber ELSE d.name

\* The calendar month before a period YYYY-MM.
MonthBefore(month) ==
  LET y == DigitsVal(SubSeq(month, 1, 4))
      m == DigitsVal(SubSeq(month, 6, 7))
  IN  IF m = 1 THEN YM(y - 1, 12) ELSE YM(y, m - 1)

\* The records of identity `key` of the requested company for a period.
RecordsOf(key, month) ==
  { d \in LedgerDocs : OfCompany(d) /\ d.name # << >> /\ KeyOf(d) = key
                         /\ d.month = month }

\* The value a bucket shows for a field a record may lack.
Defaulted(d, fk) ==
  IF ~IsNull(d.f[fk]) THEN d.f[fk]
  ELSE IF fk \in STRING_FIELDS THEN Str(<< >>) ELSE Num(0)

\* The keys of the entries of the snapshot.
SnapshotKeys ==
  { loc.appEmployeeMap[k].key : k \in 1..Len(loc.appEmployeeMap) }

(* C22: the previous period is the calendar month before the target period,
   the year carried over January and the month zero-padded.  An identity has
   an entry exactly when the company has a record of it for the target or the
   previous period; its current bucket is filled exactly when there is a
   target-period record and then carries the base salary of one of them; its
   previous bucket is filled exactly when there is a previous-period record
   and then carries the base salary of one of them; records of other months
   fill nothing. *)
C22_PreviousPeriod ==
  SnapshotBuilt =>
    LET target == req.month
        before == MonthBefore(req.month)
    IN  /\ SnapshotKeys =
             { KeyOf(d) : d \in { d \in LedgerDocs :
                 OfCompany(d) /\ d.name # << >> /\ d.month \in { target, before } } }
        /\ \A k \in 1..Len(loc.appEmployeeMap) :
             LET e == loc.appEmployeeMap[k]
             IN  /\ e.current # NoRecord <=> RecordsOf(e.key, target) # { }
                 /\ e.prev # NoRecord <=> RecordsOf(e.key, before) # { }
                 /\ e.current # NoRecord =>
                      \E d \in RecordsOf(e.key, target) :
                        e.current.v["baseSalary"] = Defaulted(d, "baseSalary")
                 /\ e.prev # NoRecord =>
                      \E d \in RecordsOf(e.key, before) :
                        e.prev.v["baseSalary"] = Defaulted(d, "baseSalary")

\* A run for January: the previous bucket is filled by the record of the
\* December before, the current bucket by the record of January.
C22_Witness ==
  /\ pc = "done" /\ response.kind = "report"
  /\ req.month = YM(2025, 1)
  /\ Len(loc.appEmployeeMap) = 1
  /\ loc.appEmployeeMap[1].current # NoRecord
  /\ loc.appEmployeeMap[1].prev # NoRecord
  /\ loc.appEmployeeMap[1].current.v["baseSalary"] = Yen(2501)
  /\ loc.appEmployeeMap[1].prev.v["baseSalary"] = Yen(2412)

(* C23: a payroll record contributes to the snapshot if and only if its raw
   company name (the short name, else the company name) is the requested
   display name or a raw variant the alias table maps to it.  Every such
   record with a name and of one of the two periods has an entry whose bucket
   of that period is filled; the records of other companies influence
   nothing: the snapshot and the allowance names read from the ledger are
   those of the store without them, and so are the results and the two
   lists, which are computed from the snapshot. *)
C23_CompanyRecordsOnly ==
  SnapshotBuilt =>
    LET own == SelectSeq(store.monthlyPayroll, OfCompany)
    IN  /\ loc.appEmployeeMap =
             AppEmployeeMap(own, loc.aliasMappings, loc.matchingNames,
                            req.companyName, req.month, loc.standardWorkingHours)
        /\ loc.appAllowanceNames =
             AppAllowanceNames(own, loc.aliasMappings, loc.matchingNames,
                               req.companyName, req.month)
        /\ \A d \in LedgerDocs :
             OfCompany(d) /\ d.name # << >>
                 /\ d.month \in { req.month, MonthBefore(req.month) } =>
               \E k \in 1..Len(loc.appEmployeeMap) :
                 /\ loc.appEmployeeMap[k].key = KeyOf(d)
                 /\ d.month = req.month => loc.appEmployeeMap[k].current # NoRecord
                 /\ d.month # req.month => loc.appEmployeeMap[k].prev # NoRecord
        /\ \A k \in 1..Len(loc.appEmployeeMap) :
             \E d \in LedgerDocs :
               OfCompany(d) /\ KeyOf(d) = loc.appEmployeeMap[k].key
        /\ Diffed =>
             /\ \A i \in Compared : WasMatched(i) =>
                  \E d \in LedgerDocs : OfCompany(d) /\ KeyOf(d) = loc.matchedKeys[i]
             /\ \A n \in 1..Len(loc.missing) :
                  \E d \in LedgerDocs : OfCompany(d) /\ d.name = loc.missing[n]

\* A report built from a store that holds a record of the company under an
\* aliased raw name and, read after it, a record of the same identity under
\* another company's name: the bucket shows the company's record.
C23_Witness ==
  /\ pc = "done" /\ response.kind = "report"
  /\ Len(store.monthlyPayroll) = 2
  /\ OfCompany(store.monthlyPayroll[1])
  /\ RawCompany(store.monthlyPayroll[1]) # req.companyName
  /\ ~OfCompany(store.monthlyPayroll[2])
  /\ KeyOf(store.monthlyPayroll[2]) = KeyOf(store.monthlyPayroll[1])
  /\ store.monthlyPayroll[2].companyName = req.companyName
  /\ Len(loc.appEmployeeMap) = 1
  /\ loc.appEmployeeMap[1].current # NoRecord
  /\ loc.appEmployeeMap[1].current.v["baseSalary"]
       = store.monthlyPayroll[1].f["baseSalary"]

\* The positions in the store of the records of identity `key` of the
\* requested company for a period, and the last of them.
RecordPositions(key, month) ==
  { n \in 1..Len(store.monthlyPayroll) :
      store.monthlyPayroll[n] \in RecordsOf(key, month) }
Last(S) == CHOOSE n \in S : \A m \in S : m <= n

\* The fields a bucket stores as read; the unit price is derived.
StoredKeys == AllFieldKeySet \ { "unitPrice" }

\* The snapshot has one entry per identity key of the company's records of
\* the two periods, and a bucket is null exactly when the identity has no
\* record of its period.
OneEntryPerIdentity ==
  /\ \A k, l \in 1..Len(loc.appEmployeeMap) :
       loc.appEmployeeMap[k].key = loc.appEmployeeMap[l].key => k = l
  /\ SnapshotKeys =
       { KeyOf(d) : d \in { d \in LedgerDocs :
           OfCompany(d) /\ d.name # << >>
             /\ d.month \in { req.month, MonthBefore(req.month) } } }
  /\ \A k \in 1..Len(loc.appEmployeeMap) :
       LET e == loc.appEmployeeMap[k]
       IN  /\ e.current = NoRecord <=> RecordPositions(e.key, req.month) = { }
           /\ e.prev = NoRecord
                <=> RecordPositions(e.key, MonthBefore(req.month)) = { }

\* The bucket of entry e for a period, and the positions of its records.
BucketOf(e, month) == IF month = req.month THEN e.current ELSE e.prev

(* C24 (as stated): the records are grouped into one snapshot per identity
   key; a bucket is null exactly when the identity has no record of its
   period; and a bucket holds, for each field, the most recent value seen for
   that field among the records of its period: the value of the last record
   read that carries the field. *)
C24_MostRecentValuePerField ==
  SnapshotBuilt =>
    /\ OneEntryPerIdentity
    /\ \A k \in 1..Len(loc.appEmployeeMap) :
         \A month \in { req.month, MonthBefore(req.month) } :
           LET e == loc.appEmployeeMap[k]
               at == RecordPositions(e.key, month)
           IN  at # { } =>
                 \A fk \in StoredKeys :
                   LET carrying == { n \in at :
                                       ~IsNull(store.monthlyPayroll[n].f[fk]) }
                   IN  carrying # { } =>
                         BucketOf(e, month).v[fk]
                           = store.monthlyPayroll[Last(carrying)].f[fk]

(* C24 (amended): the records are grouped into one snapshot per identity
   key; a bucket is null exactly when the identity has no record of its
   period; and a bucket holds the fields of the last record read of its
   period, whole: a field that record lacks is 0 (text: the empty string),
   whatever the earlier records of the period carried. *)
C24_LastRecordPerPeriod ==
  SnapshotBuilt =>
    /\ OneEntryPerIdentity
    /\ \A k \in 1..Len(loc.appEmployeeMap) :
         \A month \in { req.month, MonthBefore(req.month) } :
           LET e == loc.appEmployeeMap[k]
               at == RecordPositions(e.key, month)
           IN  at # { } =>
                 \A fk \in StoredKeys :
                   BucketOf(e, month).v[fk]
                     = Defaulted(store.monthlyPayroll[Last(at)], fk)

\* Two records of one identity and one period, the first with a base salary,
\* the second without: the bucket shows 0.
C24_Witness ==
  /\ pc = "done" /\ response.kind = "report"
  /\ Len(store.monthlyPayroll) = 2
  /\ Len(loc.appEmployeeMap) = 1
  /\ RecordPositions(loc.appEmployeeMap[1].key, req.month) = { 1, 2 }
  /\ store.monthlyPayroll[1].kintoneRecordId = << >>
  /\ store.monthlyPayroll[1].name # store.monthlyPayroll[2].name
  /\ store.monthlyPayroll[1].f["baseSalary"] = Yen(2000)
  /\ IsNull(store.monthlyPayroll[2].f["baseSalary"])
  /\ loc.appEmployeeMap[1].current.v["baseSalary"] = Num(0)

\* The amounts the unit price is derived from, of a record whose amounts are
\* numbers or absent: the base salary and the six allowances, in hundredths.
AmountKeys ==
  { "baseSalary", "allowance1", "allowance2", "allowance3", "allowance4",
    "allowance5", "allowance6" }
Amount(d, fk) == IF IsNum(d.f[fk]) THEN d.f[fk].v ELSE 0
PaySum(d) ==
  Amount(d, "baseSalary") + Amount(d, "allowance1") + Amount(d, "allowance2")
    + Amount(d, "allowance3") + Amount(d, "allowance4")
    + Amount(d, "allowance5") + Amount(d, "allowance6")

\* q hundredths is pay / hours rounded to two decimals, halves going up:
\* q - 1/2 <= 100 * pay / hours < q + 1/2.
RoundedQuotient(q, pay, hours) ==
  /\ (2 * q - 1) * hours <= 2 * pay * Scale
  /\ 2 * pay * Scale < (2 * q + 1) * hours

\* The unit price a record stores is zero or absent.
NoUnitPrice(d) ==
  IsNull(d.f["unitPrice"]) \/ d.f["unitPrice"] = Num(0)

(* C25: the unit price of a bucket, for a record whose amounts are numbers
   or absent, is the stored value when that is non-zero; when it is zero or
   absent and the standard working hours are positive it is a number, the
   sum of the base salary and the six allowances divided by the standard
   working hours, rounded to two decimals; when the working hours are not
   positive the derivation is skipped and the unit price is 0. *)
C25_UnitPrice ==
  SnapshotBuilt =>
    \A k \in 1..Len(loc.appEmployeeMap) :
      \A month \in { req.month, MonthBefore(req.month) } :
        LET e == loc.appEmployeeMap[k]
            at == RecordPositions(e.key, month)
            d == store.monthlyPayroll[Last(at)]
            unitPrice == BucketOf(e, month).v["unitPrice"]
            hours == loc.standardWorkingHours
        IN  at # { } /\ (\A fk \in AmountKeys \cup { "unitPrice" } :
                            IsNull(d.f[fk]) \/ IsNum(d.f[fk])) =>
              IF ~NoUnitPrice(d) THEN unitPrice = d.f["unitPrice"]
              ELSE IF hours > 0
                THEN IsNum(unitPrice)
                       /\ RoundedQuotient(unitPrice.v, PaySum(d), hours)
                ELSE unitPrice = Num(0)

\* A record without a unit price, with a base salary of 1,001 under 160
\* standard working hours: the unit price of the bucket is 6.26.
C25_Witness ==
  /\ pc = "done" /\ response.kind = "report"
  /\ loc.standardWorkingHours = 160 * Scale
  /\ Len(loc.appEmployeeMap) = 1
  /\ \E d \in LedgerDocs :
       /\ d.month = req.month /\ NoUnitPrice(d) /\ PaySum(d) = 1001 * Scale
  /\ loc.appEmployeeMap[1].current # NoRecord
  /\ loc.appEmployeeMap[1].current.v["unitPrice"] = Num(626)

\* Under working hours that are not positive a record without a unit price
\* keeps the unit price 0 although it has pay.
C25_WitnessNoHours ==
  /\ pc = "done" /\ response.kind = "report"
  /\ loc.standardWorkingHours < 0
  /\ Len(loc.appEmployeeMap) = 1
  /\ \E d \in LedgerDocs : d.month = req.month /\ NoUnitPrice(d) /\ PaySum(d) > 0
  /\ loc.appEmployeeMap[1].current # NoRecord
  /\ loc.appEmployeeMap[1].current.v["unitPrice"] = Num(0)

\* The statuses of the check items produced so far.
StatusesProduced ==
  UNION { { Item(i, j).status : j \in 1..Len(loc.results[i].checks) } :
            i \in Compared }

(* C26: every check item produced has one of the statuses ok, mismatch,
   changed and no_data, in the results under construction and in the report
   answered; the status warning is never produced. *)
C26_StatusSet ==
  /\ StatusesProduced \subseteq { "ok", "mismatch", "changed", "no_data" }
  /\ "warning" \notin StatusesProduced
  /\ response.kind = "report" =>
       \A i \in 1..Len(response.results) :
         \A j \in 1..Len(response.results[i].checks) :
           response.results[i].checks[j].status
             \in { "ok", "mismatch", "changed", "no_data" }

\* A report whose check items show a changed value next to a mismatch.
C26_Witness ==
  /\ pc = "done" /\ response.kind = "report"
  /\ { "changed", "mismatch" } \subseteq StatusesProduced

(* C27: missingFromSpreadsheet and newInSpreadsheet are disjoint up to
   normalization: no name of newInSpreadsheet differs only in white space
   from (or equals) the name of a ledger identity of the company, hence from
   no name of missingFromSpreadsheet. *)
C27_ListsDisjoint ==
  Diffed =>
    \A n \in 1..Len(loc.newInExcel) :
      /\ \A k \in 1..Len(loc.appEmployeeMap) :
           ~WsEquiv(loc.newInExcel[n], loc.appEmployeeMap[k].name)
      /\ \A m \in 1..Len(loc.missing) :
           ~WsEquiv(loc.newInExcel[n], loc.missing[m])

\* A report with a name in each list, built from a sheet that also holds an
\* employee written with other white space than the ledger identity it was
\* matched to: that employee is in neither list.
C27_Witness ==
  /\ pc = "done" /\ response.kind = "report"
  /\ response.missing # << >> /\ response.newInExcel # << >>
  /\ \E i \in Compared :
       /\ WasMatched(i)
       /\ MatchedEntry(i).name # loc.excelEmployees[i].name
       /\ WsEquiv(MatchedEntry(i).name, loc.excelEmployees[i].name)
       /\ \A n \in 1..Len(response.newInExcel) :
            response.newInExcel[n] # loc.excelEmployees[i].name

\* The outcome "not present in the ledger" of a check item.
NotInLedger(item) == item.status = "no_data" /\ item.message = M_noApp

\* Some check item of spreadsheet employee i has that outcome.
HasNotInLedger(i) ==
  \E j \in 1..Len(loc.results[i].checks) : NotInLedger(Item(i, j))

\* Spreadsheet employee i was matched to an identity that has a record of
\* the previous period only.
MatchedToPreviousOnly(i) ==
  WasMatched(i) /\ MatchedEntry(i).current = NoRecord

\* The outcome occurs for no employee matched to an identity with a
\* current-period record, whose ledger values are all present, and hence
\* only for an unmatched employee or one matched to an identity with a
\* previous-period record only.
NotInLedgerOnlyWithoutCurrent ==
  \A i \in Compared :
    /\ WasMatched(i) /\ MatchedEntry(i).current # NoRecord =>
         /\ ~HasNotInLedger(i)
         /\ \A key \in AllFieldKeySet : ~IsNull(MatchedEntry(i).current.v[key])
    /\ HasNotInLedger(i) => ~WasMatched(i) \/ MatchedToPreviousOnly(i)
    /\ ~WasMatched(i) \/ MatchedToPreviousOnly(i) =>
         \A j \in 1..Len(loc.results[i].checks) :
           ~IsNull(Item(i, j).excelValue) => NotInLedger(Item(i, j))

(* C28 (as stated): no check item of a spreadsheet employee matched to an
   identity with a current-period record has the outcome "not present in the
   ledger"; the outcome occurs only when no identity matched or the matched
   identity has a previous-period record only, and in the latter case the
   employee's name is not in newInSpreadsheet and the identity's name is not
   in missingFromSpreadsheet. *)
C28_PreviousOnlyInNeitherList ==
  /\ NotInLedgerOnlyWithoutCurrent
  /\ Diffed =>
       \A i \in Compared : MatchedToPreviousOnly(i) =>
         /\ \A n \in 1..Len(loc.newInExcel) :
              loc.newInExcel[n] # loc.excelEmployees[i].name
         /\ \A m \in 1..Len(loc.missing) :
              loc.missing[m] # MatchedEntry(i).name

(* C28 (amended): no check item of a spreadsheet employee matched to an
   identity with a current-period record has the outcome "not present in the
   ledger"; the outcome occurs only when no identity matched or the matched
   identity has a previous-period record only, and in the latter case neither
   list has an entry on their account: missingFromSpreadsheet has no entry
   for the identity, and newInSpreadsheet holds the employee's name only if
   another spreadsheet employee, matched to no identity, carries that name. *)
C28_PreviousOnlyYieldsNoEntry ==
  /\ NotInLedgerOnlyWithoutCurrent
  /\ Diffed =>
       \A i \in Compared : MatchedToPreviousOnly(i) =>
         /\ \A n \in 1..Len(loc.newInExcel) :
              loc.newInExcel[n] = loc.excelEmployees[i].name =>
                \E j \in Compared :
                  /\ j # i /\ ~WasMatched(j)
                  /\ loc.excelEmployees[j].name = loc.excelEmployees[i].name
         /\ \A m \in 1..Len(loc.missingEntries) :
              loc.missingEntries[m].key # loc.matchedKeys[i]

\* A report for an employee matched to an identity with a previous-period
\* record only: its items are "not present in the ledger", newInSpreadsheet
\* is empty, and missingFromSpreadsheet holds the name of the identity, that
\* of an unmatched namesake.
C28_Witness ==
  /\ pc = "done" /\ response.kind = "report"
  /\ \E i \in Compared :
       /\ MatchedToPreviousOnly(i) /\ HasNotInLedger(i)
       /\ response.newInExcel = << >>
       /\ response.missing = << MatchedEntry(i).name >>

\* `name` is the string `cell` without its leading and trailing white space.
IsTrimOf(name, cell) ==
  /\ name # << >> => Head(name) \notin WhiteSpace /\ name[Len(name)] \notin WhiteSpace
  /\ \E p \in 0..(Len(cell) - Len(name)) :
       /\ SubSeq(cell, p + 1, p + Len(name)) = name
       /\ \A q \in 1..Len(cell) :
            q <= p \/ q > p + Len(name) => cell[q] \in WhiteSpace

(* C29: the employee number of a result is that of the ledger identity the
   employee was matched to, whatever number the row carried, and the empty
   string when no identity matched, even if the row carried a number; the
   name of a result is the name cell of its row without leading and trailing
   white space. *)
C29_ResultIdentity ==
  \A i \in Compared :
    /\ loc.results[i].employeeNumber =
         (IF WasMatched(i) THEN MatchedEntry(i).employeeNumber ELSE << >>)
    /\ IsTrimOf(loc.results[i].name, NameCell(EmittedRows[i]).v)
    /\ response.kind = "report" =>
         /\ response.results[i].name = loc.results[i].name
         /\ response.results[i].employeeNumber = loc.results[i].employeeNumber

\* A report with an employee whose row carried a number and that matched no
\* identity: the number of its result is empty.
C29_Witness ==
  /\ pc = "done" /\ response.kind = "report"
  /\ \E i \in Compared :
       /\ ~WasMatched(i)
       /\ loc.excelEmployees[i].employeeNumber # << >>
       /\ response.results[i].employeeNumber = << >>

\* A report with an employee matched by name to an identity that carries
\* another number than its row: the result shows the identity's number.
C29_WitnessOtherNumber ==
  /\ pc = "done" /\ response.kind = "report"
  /\ \E i \in Compared :
       /\ WasMatched(i)
       /\ loc.excelEmployees[i].employeeNumber # << >>
       /\ MatchedEntry(i).employeeNumber # loc.excelEmployees[i].employeeNumber
       /\ response.results[i].employeeNumber = MatchedEntry(i).employeeNumber

\* The month after a period YYYY-MM.
MonthAfter(month) ==
  LET y == DigitsVal(SubSeq(month, 1, 4))
      m == DigitsVal(SubSeq(month, 6, 7))
  IN  IF m = 12 THEN YM(y + 1, 1) ELSE YM(y, m + 1)

\* The record is of the company `company`: its raw company name is that
\* name or one the alias table maps to it.
OfCompanyNamed(d, company) ==
  \/ RawCompany(d) = company
  \/ /\ store.appSettings.exists
     /\ \E j \in 1..Len(store.appSettings.mappings) :
          store.appSettings.mappings[j] = << RawCompany(d), company >>

\* The invocations with a company and a month.
ValidInvocations ==
  { p \in Invocations : req[p].companyName # << >> /\ req[p].currentMonth # << >> }

\* The positions in the store of the records the company of invocation p has
\* for the month after the one it completes.
NextMonthRecords(p) ==
  { n \in 1..Len(store.monthlyPayroll) :
      /\ store.monthlyPayroll[n].month = MonthAfter(req[p].currentMonth)
      /\ OfCompanyNamed(store.monthlyPayroll[n], req[p].companyName) }

\* The next month holds at most one record per record id for the company,
\* and none of a retired employee.
OneNextRecordPerId(p) ==
  /\ \A n, m \in NextMonthRecords(p) :
       /\ store.monthlyPayroll[n].kintoneRecordId # << >>
       /\ store.monthlyPayroll[n].kintoneRecordId
            = store.monthlyPayroll[m].kintoneRecordId
       => n = m
  /\ \A n \in NextMonthRecords(p) : store.monthlyPayroll[n].status # TAISHA

\* The log entries of invocation p: its read of the next month, its commits.
ReadsNextAt(p) ==
  { i \in 1..Len(reads) : reads[i] = << p, "nextMonth", "read" >> }
CommitsAt(p) ==
  { i \in 1..Len(reads) : reads[i] = << p, "nextMonth", "commit" >> }

\* Two invocations overlap: one reads the next month after the other read
\* it and before the other committed.
Overlap(p, q) ==
  \E i \in ReadsNextAt(p), j \in ReadsNextAt(q), k \in CommitsAt(p) :
    i < j /\ j < k

(* C30: after any number of invocations of monthly/complete for the same
   company and month, one after the other or with their store reads and
   batch commits interleaved, the next month holds at most one record per
   kintoneRecordId for that company, and a retired employee is never carried
   forward. *)
C30_OneNextRecordPerEmployee ==
  \A p \in ValidInvocations : OneNextRecordPerId(p)

\* The same for invocations that do not overlap: it holds as long as no
\* invocation reads the next month between another one's read of it and
\* that one's commit.
C30_SerialInvocations ==
  (\A p, q \in Invocations : ~Overlap(p, q)) =>
    \A p \in ValidInvocations : OneNextRecordPerId(p)

\* Two invocations that did not overlap both answered: the second skipped
\* the employee the first carried forward.
C30_WitnessSerial ==
  /\ \A p \in Invocations : pc[p] = "done" /\ response[p].kind = "completed"
  /\ \A p, q \in Invocations : ~Overlap(p, q)
  /\ \E p, q \in Invocations :
       /\ response[p].created = 1 /\ response[p].skipped = 0
       /\ response[q].created = 0 /\ response[q].skipped = 1

====
